---------------------------- MODULE Spec2Model ----------------------------
(***************************************************************************)
(* Model of the document validation agent                                  *)
(* ("src/Updated Document validation agent/app.py"): windowed chunking,    *)
(* embedding, vector index, nearest-neighbour search, context assembly,    *)
(* parsing of the completion text and aggregation of the report.           *)
(*                                                                         *)
(* A Python string is a sequence of characters (chunker, documents) or a   *)
(* sequence of lexical tokens (completion text).  A Python value is a      *)
(* record [kind, toks, keys, items].                                       *)
(***************************************************************************)
EXTENDS Integers, Sequences, FiniteSets, TLC

VARIABLES
    text,        \* chunk_text: the text being chunked
    chunk_size,  \* chunk_text: parameter chunk_size
    overlap,     \* chunk_text: parameter overlap
    start,       \* chunk_text: local start
    chunks,      \* chunk_text: local chunks
    chunk_pc,    \* chunk_text: "idle" | "loop" | "done"
    pc,          \* validate_document: the statement the request is at
    ai_raw,      \* validate_document: local ai_raw
    ai_parsed,   \* validate_document: local ai_parsed
    exc,         \* the exception that ended the request ("" when none)
    response,    \* the value validate_document returned
    file,        \* validate_document: the uploaded file
    embeddings,  \* embed_chunks: local embeddings
    embedded_chunks, \* validate_document: local embedded_chunks
    index,       \* validate_document: local index (the faiss IndexFlatL2)
    texts,       \* validate_document: local texts
    relevant_chunks, \* validate_document: local relevant_chunks
    context,     \* validate_document: local context
    calls,       \* the requests sent to the providers, in order
    replies,     \* the providers' responses to them, in the same order
    other,       \* validate_document: the locals of a second request in flight
    onb,         \* process_onboarding: the request, its locals and its calls
    list_items,  \* the SharePoint list the proxy writes to
    upserts,     \* upsert_list_item: the locals of each request in flight
    graph_calls, \* the requests upsert_list_item sent to Graph, in order
    served       \* the last request one of the other proxy endpoints answered

chunkVars == <<text, chunk_size, overlap, start, chunks, chunk_pc>>

reportVars == <<pc, ai_raw, ai_parsed, exc, response>>

pipeVars == <<file, embeddings, embedded_chunks, index, texts,
              relevant_chunks, context, calls, replies>>

\* The state of what runs beside one validate_document request.
extVars == <<other, onb, list_items, upserts, graph_calls, served>>

vars == <<text, chunk_size, overlap, start, chunks, chunk_pc,
          pc, ai_raw, ai_parsed, exc, response,
          file, embeddings, embedded_chunks, index, texts,
          relevant_chunks, context, calls, replies,
          other, onb, list_items, upserts, graph_calls, served>>

-----------------------------------------------------------------------------
(* Bounds of the model *)

MaxLen == 5
MaxSize == 3
MaxOverlap == 4
MaxIter == 8
MaxAiLen == 4
MaxIndexed == 4
MaxSearches == 3
MaxItems == 2

-----------------------------------------------------------------------------
(* Python helpers *)

Min(a, b) == IF a < b THEN a ELSE b
Max(a, b) == IF a > b THEN a ELSE b

\* Python's normalisation of a slice bound i for a sequence of length n.
SliceBound(i, n) == IF i < 0 THEN Max(i + n, 0) ELSE Min(i, n)

\* s[a:b] for a Python sequence s (0-based, negative bounds count from the end).
PySlice(s, a, b) ==
    LET lo == SliceBound(a, Len(s))
        hi == SliceBound(b, Len(s))
    IN  IF lo < hi THEN SubSeq(s, lo + 1, hi) ELSE <<>>

\* All sequences over S of length at most n.
SeqsUpTo(S, n) == UNION {[1..k -> S] : k \in 0..n}

-----------------------------------------------------------------------------
(* Python values *)

\* str: toks are the string's tokens; int: toks is the numeral; dict: keys and
\* items in insertion order; list: items.
PyStr(toks) == [kind |-> "str", toks |-> toks, keys |-> <<>>, items |-> <<>>]
PyInt(numeral) == [kind |-> "int", toks |-> <<numeral>>, keys |-> <<>>, items |-> <<>>]
PyNone == [kind |-> "none", toks |-> <<>>, keys |-> <<>>, items |-> <<>>]
PyList(items) == [kind |-> "list", toks |-> <<>>, keys |-> <<>>, items |-> items]
PyDict(keys, items) == [kind |-> "dict", toks |-> <<>>, keys |-> keys, items |-> items]

\* bool(v)
Truthy(v) ==
    CASE v.kind = "str" -> v.toks # <<>>
      [] v.kind = "int" -> v.toks # <<"0">>
      [] v.kind = "list" -> v.items # <<>>
      [] v.kind = "dict" -> v.keys # <<>>
      [] OTHER -> FALSE

\* d[k] = v for a dict d: an existing key keeps its place, a new key goes last.
DictSet(d, k, v) ==
    IF \E i \in 1..Len(d.keys) : d.keys[i] = k
    THEN LET i == CHOOSE i \in 1..Len(d.keys) : d.keys[i] = k
         IN  PyDict(d.keys, [d.items EXCEPT ![i] = v])
    ELSE PyDict(Append(d.keys, k), Append(d.items, v))

\* d.get(k, default) for a dict d.
DictGet(d, k, default) ==
    IF \E i \in 1..Len(d.keys) : d.keys[i] = k
    THEN d.items[CHOOSE i \in 1..Len(d.keys) : d.keys[i] = k]
    ELSE default

-----------------------------------------------------------------------------
(* The completion text: a sequence of lexical tokens *)

\* The backtick character.
Backtick == "BACKTICK"
JsonWord == "json"
Space == " "
Prose == "x"

\* JSON string literals (with their quotes) and the strings they denote.
StrLits == {"\"missing_fields\"", "\"risks\"", "\"invalid_fields\"",
            "\"document_type\"", "\"summary\"", "\"message\"", "\"ABN\"", "\"\"",
            "\"issues\"", "\"Attachments\""}

LitValue(lit) ==
    CASE lit = "\"missing_fields\"" -> <<"missing_fields">>
      [] lit = "\"risks\"" -> <<"risks">>
      [] lit = "\"invalid_fields\"" -> <<"invalid_fields">>
      [] lit = "\"document_type\"" -> <<"document_type">>
      [] lit = "\"summary\"" -> <<"summary">>
      [] lit = "\"message\"" -> <<"message">>
      [] lit = "\"ABN\"" -> <<"ABN">>
      [] lit = "\"issues\"" -> <<"issues">>
      [] lit = "\"Attachments\"" -> <<"Attachments">>
      [] OTHER -> <<>>

\* The token at 1-based position i, "EOF" past the end.
Tok(t, i) == IF i >= 1 /\ i <= Len(t) THEN t[i] ELSE "EOF"

RECURSIVE SkipWs(_, _)
\* The first position from i on that holds no whitespace.
SkipWs(t, i) == IF Tok(t, i) = Space THEN SkipWs(t, i + 1) ELSE i

RECURSIVE ReSubFencesFirstOnly(_, _)
\* Mutant: only the first fence is removed (re.sub with count=1).
ReSubFencesFirstOnly(t, i) ==
    IF i > Len(t) THEN <<>>
    ELSE IF Tok(t, i) = Backtick /\ Tok(t, i + 1) = Backtick /\ Tok(t, i + 2) = Backtick
         THEN IF Tok(t, i + 3) = JsonWord
              THEN SubSeq(t, i + 4, Len(t))
              ELSE SubSeq(t, i + 3, Len(t))
         ELSE <<t[i]>> \o ReSubFencesFirstOnly(t, i + 1)

RECURSIVE ReSubFences(_, _)
\* re.sub(FENCE_JSON|FENCE, "", s), FENCE being three backticks and FENCE_JSON
\* three backticks and the word json: a left-to-right scan for non-overlapping
\* matches, FENCE_JSON tried before FENCE at every position.
ReSubFences(t, i) ==
    IF i > Len(t) THEN <<>>
    ELSE IF Tok(t, i) = Backtick /\ Tok(t, i + 1) = Backtick /\ Tok(t, i + 2) = Backtick
         THEN IF Tok(t, i + 3) = JsonWord
              THEN ReSubFences(t, i + 4)
              ELSE ReSubFences(t, i + 3)
         ELSE <<t[i]>> \o ReSubFences(t, i + 1)

RECURSIVE StripLeft(_)
StripLeft(t) == IF t # <<>> /\ Head(t) = Space THEN StripLeft(Tail(t)) ELSE t

RECURSIVE StripRight(_)
StripRight(t) ==
    IF t # <<>> /\ t[Len(t)] = Space THEN StripRight(SubSeq(t, 1, Len(t) - 1)) ELSE t

\* s.strip()
Strip(t) == StripRight(StripLeft(t))

\* The result of a failed parse at position i.
NoParse(i) == [ok |-> FALSE, val |-> PyNone, next |-> i]

RECURSIVE ParseValue(_, _)
RECURSIVE ParseElements(_, _, _)
RECURSIVE ParseMembers(_, _, _)

\* The JSON value that starts at position i (whitespace already skipped).
ParseValue(t, i) ==
    LET c == Tok(t, i)
    IN  CASE c = "0" -> [ok |-> TRUE, val |-> PyInt("0"), next |-> i + 1]
          [] c = "null" -> [ok |-> TRUE, val |-> PyNone, next |-> i + 1]
          [] c \in StrLits -> [ok |-> TRUE, val |-> PyStr(LitValue(c)), next |-> i + 1]
          [] c = "[" ->
                LET j == SkipWs(t, i + 1)
                IN  IF Tok(t, j) = "]"
                    THEN [ok |-> TRUE, val |-> PyList(<<>>), next |-> j + 1]
                    ELSE ParseElements(t, j, <<>>)
          [] c = "{" ->
                LET j == SkipWs(t, i + 1)
                IN  IF Tok(t, j) = "}"
                    THEN [ok |-> TRUE, val |-> PyDict(<<>>, <<>>), next |-> j + 1]
                    ELSE ParseMembers(t, j, PyDict(<<>>, <<>>))
          [] OTHER -> NoParse(i)

\* The elements of an array from position i on, after those in acc.
ParseElements(t, i, acc) ==
    LET v == ParseValue(t, i)
        j == SkipWs(t, v.next)
    IN  IF ~v.ok THEN NoParse(i)
        ELSE IF Tok(t, j) = ","
             THEN ParseElements(t, SkipWs(t, j + 1), Append(acc, v.val))
             ELSE IF Tok(t, j) = "]"
                  THEN [ok |-> TRUE, val |-> PyList(Append(acc, v.val)), next |-> j + 1]
                  ELSE NoParse(j)

\* The members of an object from position i on, after those in acc; a key
\* that comes again replaces the earlier value.
ParseMembers(t, i, acc) ==
    LET colon == SkipWs(t, i + 1)
        v == ParseValue(t, SkipWs(t, colon + 1))
        j == SkipWs(t, v.next)
    IN  IF Tok(t, i) \notin StrLits \/ Tok(t, colon) # ":" THEN NoParse(i)
        ELSE IF ~v.ok THEN NoParse(i)
        ELSE LET d == DictSet(acc, LitValue(Tok(t, i))[1], v.val)
             IN  IF Tok(t, j) = ","
                 THEN ParseMembers(t, SkipWs(t, j + 1), d)
                 ELSE IF Tok(t, j) = "}"
                      THEN [ok |-> TRUE, val |-> d, next |-> j + 1]
                      ELSE NoParse(j)

\* json.loads(s): one value, whitespace around it, nothing after it.
\* ok = FALSE stands for JSONDecodeError.
JsonLoads(t) ==
    LET v == ParseValue(t, SkipWs(t, 1))
    IN  IF v.ok /\ SkipWs(t, v.next) = Len(t) + 1
        THEN [ok |-> TRUE, val |-> v.val]
        ELSE [ok |-> FALSE, val |-> PyNone]

-----------------------------------------------------------------------------
(* parse_ai_json *)

Returned(v) == [raised |-> "", value |-> v]
Raised(e) == [raised |-> e, value |-> PyNone]

\* return {"error": "Empty AI response"}
EmptyResponseError == PyDict(<<"error">>, <<PyStr(<<"Empty AI response">>)>>)

\* Mutant: the fallback carries the cleaned text.
InvalidJsonFallbackCleaned(ai_text) ==
    PyDict(<<"error", "raw_response">>,
           <<PyStr(<<"Invalid JSON returned by AI">>),
             PyStr(Strip(ReSubFences(ai_text.toks, 1)))>>)

\* return {"error": "Invalid JSON returned by AI", "raw_response": ai_text}
InvalidJsonFallback(ai_text) ==
    PyDict(<<"error", "raw_response">>,
           <<PyStr(<<"Invalid JSON returned by AI">>), ai_text>>)

\* parse_ai_json(ai_text): re.sub raises TypeError on anything but a string.
parse_ai_json(ai_text) ==
    IF ~Truthy(ai_text) THEN Returned(EmptyResponseError)
    ELSE IF ai_text.kind # "str" THEN Raised("TypeError")
    ELSE LET cleaned == Strip(ReSubFences(ai_text.toks, 1))
             loaded == JsonLoads(cleaned)
         IN  IF loaded.ok THEN Returned(loaded.val)
             ELSE Returned(InvalidJsonFallback(ai_text))

-----------------------------------------------------------------------------
(* The response of a request *)

\* No response yet.
NoResponse ==
    [code |-> 0, document_type |-> PyNone, status |-> "",
     missing_fields |-> PyNone, invalid_fields |-> PyNone, risks |-> PyNone,
     message |-> PyNone]

\* The response the framework sends for an exception: the HTTPException's
\* status code, 500 for any other exception.
ErrorResponse(code) == [NoResponse EXCEPT !.code = code]

\* An index that has not been built.
NoIndex == [d |-> 0, vectors |-> <<>>]

\* No file.
NoFile == [ext |-> "", extracted |-> <<>>]

\* The locals of validate_document before the request assigns them.
PipeIdle ==
    /\ file = NoFile
    /\ embeddings = <<>>
    /\ embedded_chunks = <<>>
    /\ index = NoIndex
    /\ texts = <<>>
    /\ relevant_chunks = <<>>
    /\ context = <<>>
    /\ calls = <<>>
    /\ replies = <<>>

\* No second request, no onboarding request, an empty list, no upsert.
ExtIdle ==
    /\ other = <<>>
    /\ onb = <<>>
    /\ list_items = <<>>
    /\ upserts = <<>>
    /\ graph_calls = <<>>
    /\ served = <<>>

\* No request is being served.
ReportIdle ==
    /\ pc = "idle"
    /\ ai_raw = PyNone
    /\ ai_parsed = PyNone
    /\ exc = ""
    /\ response = NoResponse

-----------------------------------------------------------------------------
(* chunk_text *)

Chars == {"a", " "}

\* Mutant: the window takes one character more.
ChunkEndInclusive(s, size) == s + size + 1

\* end = start + chunk_size
ChunkEnd(s, size) == s + size

\* Mutant: the window start is moved back one character too far.
ChunkNextStartOffByOne(end, ov) == end - ov - 1

\* start = end - overlap
ChunkNextStart(end, ov) == end - ov

\* Mutant: the loop runs only while a whole window is left.
ChunkLoopCondFullWindowsOnly(s, t) == s + chunk_size <= Len(t)

\* Mutant: the loop stops as soon as the rest of the text is covered by the
\* previous window.
ChunkLoopCondSkipsCoveredTail(s, t) ==
    s < Len(t) /\ (s = 0 \/ s + overlap < Len(t))

\* while start < len(text)
ChunkLoopCond(s, t) == s < Len(t)

\* One iteration of the while loop.
ChunkLoopStep ==
    /\ chunk_pc = "loop"
    /\ ChunkLoopCond(start, text)
    /\ Len(chunks) < MaxIter
    /\ LET end == ChunkEnd(start, chunk_size)
       IN  /\ chunks' = Append(chunks, PySlice(text, start, end))
           /\ start' = ChunkNextStart(end, overlap)
    /\ UNCHANGED <<text, chunk_size, overlap, chunk_pc>>
    /\ UNCHANGED reportVars
    /\ UNCHANGED pipeVars
    /\ UNCHANGED extVars

\* The loop condition is false: return chunks.
ChunkReturn ==
    /\ chunk_pc = "loop"
    /\ ~ChunkLoopCond(start, text)
    /\ chunk_pc' = "done"
    /\ UNCHANGED <<text, chunk_size, overlap, start, chunks>>
    /\ UNCHANGED reportVars
    /\ UNCHANGED pipeVars
    /\ UNCHANGED extVars

\* State on entry of the while loop, for any text and any parameters.
ChunkInit ==
    /\ text \in SeqsUpTo(Chars, MaxLen)
    /\ chunk_size \in 1..MaxSize
    /\ overlap \in 0..MaxOverlap
    /\ start = 0
    /\ chunks = <<>>
    /\ chunk_pc = "loop"
    /\ ReportIdle
    /\ PipeIdle
    /\ ExtIdle

ChunkNext == ChunkLoopStep \/ ChunkReturn

ChunkSpec == ChunkInit /\ [][ChunkNext]_vars

ChunkFairSpec == ChunkSpec /\ WF_vars(ChunkNext)

-----------------------------------------------------------------------------
(* validate_document: parsing of the completion and aggregation *)

\* ai_parsed = parse_ai_json(ai_raw)
ParseAiJson ==
    /\ pc = "parse_ai_json"
    /\ LET r == parse_ai_json(ai_raw)
       IN  IF r.raised = ""
           THEN /\ ai_parsed' = r.value
                /\ pc' = "aggregate"
                /\ UNCHANGED <<exc, response>>
           ELSE /\ exc' = r.raised
                /\ response' = ErrorResponse(500)
                /\ pc' = "failed"
                /\ UNCHANGED ai_parsed
    /\ UNCHANGED ai_raw
    /\ UNCHANGED chunkVars
    /\ UNCHANGED pipeVars
    /\ UNCHANGED extVars

\* Mutant: risks alone do not raise the status.
StatusIgnoringRisks(missing, invalid, risks) ==
    IF Truthy(missing) \/ Truthy(invalid) THEN "NEEDS_ATTENTION" ELSE "CLEAR"

\* status = "CLEAR"; if missing or invalid or risks: status = "NEEDS_ATTENTION"
StatusOf(missing, invalid, risks) ==
    IF Truthy(missing) \/ Truthy(invalid) \/ Truthy(risks)
    THEN "NEEDS_ATTENTION" ELSE "CLEAR"

\* Mutant: an absent document_type or summary is reported as None.
ReportWithoutDefaults(parsed) ==
    LET missing == DictGet(parsed, "missing_fields", PyList(<<>>))
        risks == DictGet(parsed, "risks", PyList(<<>>))
        invalid == PyList(<<>>)
    IN  [code |-> 200,
         document_type |-> DictGet(parsed, "document_type", PyNone),
         status |-> StatusOf(missing, invalid, risks),
         missing_fields |-> missing,
         invalid_fields |-> invalid,
         risks |-> risks,
         message |-> DictGet(parsed, "summary", PyNone)]

\* Mutant: an absent missing_fields or risks is reported as None.
ReportWithoutIssueDefaults(parsed) ==
    LET missing == DictGet(parsed, "missing_fields", PyNone)
        risks == DictGet(parsed, "risks", PyNone)
        invalid == PyList(<<>>)
    IN  [code |-> 200,
         document_type |-> DictGet(parsed, "document_type", PyStr(<<"Unknown">>)),
         status |-> StatusOf(missing, invalid, risks),
         missing_fields |-> missing,
         invalid_fields |-> invalid,
         risks |-> risks,
         message |-> DictGet(parsed, "summary",
                             PyStr(<<"Document analysis completed.">>))]

\* Mutant: invalid is read from the model output.
ReportReadingInvalidFields(parsed) ==
    LET missing == DictGet(parsed, "missing_fields", PyList(<<>>))
        risks == DictGet(parsed, "risks", PyList(<<>>))
        invalid == DictGet(parsed, "invalid_fields", PyList(<<>>))
    IN  [code |-> 200,
         document_type |-> DictGet(parsed, "document_type", PyStr(<<"Unknown">>)),
         status |-> StatusOf(missing, invalid, risks),
         missing_fields |-> missing,
         invalid_fields |-> invalid,
         risks |-> risks,
         message |-> DictGet(parsed, "summary",
                             PyStr(<<"Document analysis completed.">>))]

\* The report built from a dict ai_parsed.
Report(parsed) ==
    LET missing == DictGet(parsed, "missing_fields", PyList(<<>>))
        risks == DictGet(parsed, "risks", PyList(<<>>))
        invalid == PyList(<<>>)
    IN  [code |-> 200,
         document_type |-> DictGet(parsed, "document_type", PyStr(<<"Unknown">>)),
         status |-> StatusOf(missing, invalid, risks),
         missing_fields |-> missing,
         invalid_fields |-> invalid,
         risks |-> risks,
         message |-> DictGet(parsed, "summary",
                             PyStr(<<"Document analysis completed.">>))]

\* The statements after parse_ai_json: .get exists on a dict only.
Aggregate ==
    /\ pc = "aggregate"
    /\ IF ai_parsed.kind = "dict"
       THEN /\ response' = Report(ai_parsed)
            /\ pc' = "done"
            /\ UNCHANGED exc
       ELSE /\ exc' = "AttributeError"
            /\ response' = ErrorResponse(500)
            /\ pc' = "failed"
    /\ UNCHANGED <<ai_raw, ai_parsed>>
    /\ UNCHANGED chunkVars
    /\ UNCHANGED pipeVars
    /\ UNCHANGED extVars

\* The tokens every sequence of which is tried as a completion text.
AiTokens == {Backtick, JsonWord, Space, "{", "}", "[", "]", "0"}

Fence == <<Backtick, Backtick, Backtick>>

\* Completion texts with keys and values.
AiScenarios ==
    { Fence \o <<JsonWord, Space, "{", "\"missing_fields\"", ":", "[", "]", ",",
                 "\"risks\"", ":", "[", "]", "}", Space>> \o Fence,
      <<"{", "\"missing_fields\"", ":", "[", "\"ABN\"", "]", "}">>,
      <<"{", "\"risks\"", ":", "[", "\"ABN\"", "]", "}">>,
      <<"{", "\"invalid_fields\"", ":", "[", "\"ABN\"", "]", "}">>,
      <<"{", "\"missing_fields\"", ":", "null", ",", "\"risks\"", ":", "\"\"", "}">>,
      <<"{", "\"document_type\"", ":", "\"ABN\"", ",", "\"summary\"", ":", "\"ABN\"",
        ",", "\"risks\"", ":", "[", "]", ",", "\"risks\"", ":", "[", "0", "]", "}">>,
      <<"{", "\"missing_fields\"", ":", "[", "\"ABN\"", ",", "]", "}">>,
      <<"{", "\"summary\"", ":", "\"ABN\"", "}">>,
      <<"{", "\"message\"", ":", "\"ABN\"", "}">>,
      <<Space, Prose, Space, Prose, Space>>,
      <<Prose, Space>> \o Fence \o <<"{", "}">> \o Fence,
      <<Backtick, Backtick>> \o Fence \o <<JsonWord, Backtick, "0">> }

\* The JSON texts tried as the value of a field; <<>> leaves the field out.
FieldValueTexts ==
    {<<>>, <<"[", "]">>, <<"[", "\"ABN\"", "]">>, <<"[", "0", ",", "\"ABN\"", "]">>,
     <<"null">>, <<"\"\"">>, <<"\"ABN\"">>, <<"0">>, <<"{", "}">>}

\* The JSON object with the given texts as missing_fields and risks.
FieldsText(missing, risks) ==
    <<"{">>
      \o (IF missing = <<>> THEN <<>> ELSE <<"\"missing_fields\"", ":">> \o missing)
      \o (IF missing # <<>> /\ risks # <<>> THEN <<",", Space>> ELSE <<>>)
      \o (IF risks = <<>> THEN <<>> ELSE <<"\"risks\"", ":">> \o risks)
      \o <<"}">>

\* Completion texts with every combination of missing_fields and risks.
AiFieldTexts == {FieldsText(m, r) : m \in FieldValueTexts, r \in FieldValueTexts}

\* The text t as the model is seen to wrap it: a json fence before it, a
\* fence after it.
Fenced(t) == Fence \o <<JsonWord, Space>> \o t \o <<Space>> \o Fence

\* The completion texts with fields, each in fences.
AiFencedTexts == {Fenced(t) : t \in AiFieldTexts}

AiTexts ==
    SeqsUpTo(AiTokens, MaxAiLen) \cup AiScenarios \cup AiFieldTexts \cup AiFencedTexts

\* Mutant: the error value carries no status code and no body.
CompletionUnavailableBare(status, body) ==
    PyDict(<<"error">>, <<PyStr(<<"AI analysis unavailable">>)>>)

\* What analyze_document_with_ai returns on a completion response that is not
\* a 200: {"error": ..., "status_code": res.status_code, "response": res.text}
CompletionUnavailable(status, body) ==
    PyDict(<<"error", "status_code", "response">>,
           <<PyStr(<<"AI analysis unavailable">>), PyInt(status), PyStr(body)>>)

\* return {"error": "AI analysis failed"}
CompletionFailed == PyDict(<<"error">>, <<PyStr(<<"AI analysis failed">>)>>)

\* Everything analyze_document_with_ai can return.
AiRaws ==
    {PyStr(t) : t \in AiTexts}
        \cup {CompletionUnavailable(st, b) : st \in {"429", "500"}, b \in {<<>>, <<Prose>>}}
        \cup {CompletionFailed}

\* analyze_document_with_ai has just returned ai_raw.
ParseInit ==
    /\ pc = "parse_ai_json"
    /\ ai_raw \in AiRaws
    /\ ai_parsed = PyNone
    /\ exc = ""
    /\ response = NoResponse
    /\ text = <<>> /\ chunk_size = 0 /\ overlap = 0 /\ start = 0
    /\ chunks = <<>> /\ chunk_pc = "idle"
    /\ PipeIdle
    /\ ExtIdle

ParseNext == ParseAiJson \/ Aggregate

ParseSpec == ParseInit /\ [][ParseNext]_vars

-----------------------------------------------------------------------------
(* validate_document: extraction, chunking, embedding, index, search *)

DefaultChunkSize == 800
DefaultOverlap == 100
TopK == 3
MAX_CONTEXT_CHARS == 2500

HelloUnit == <<"H", "e", "l", "l", "o", " ", "w", "o", "r", "l", "d", ".", " ">>

\* The first n characters of "Hello world. " repeated.
HelloText(n) == [i \in 1..n |-> HelloUnit[((i - 1) % 13) + 1]]

\* The texts the extraction of an upload yields: empty, blank, and documents
\* of one to four chunks.
ExtractedTexts ==
    {<<>>, <<" ", " ">>} \cup {HelloText(n) : n \in {1, 800, 1300, 1500, 2200}}

Files == [ext : {"pdf", "docx", "txt"}, extracted : ExtractedTexts]

\* The embeddings the provider may answer with (two dimensions occur).
Vectors == {<<0>>, <<1>>, <<0, 0>>}

\* The statuses a provider may answer with.
Statuses == {"200", "429", "500"}

\* A provider's response: its status, the embedding it carries (embeddings
\* endpoint) and its body (chat completions endpoint).
Reply(status, vec, body) == [status |-> status, vec |-> vec, body |-> body]

\* Mutant: the text is checked as it came, without trimming.
StripCharsNone(t) == t

\* text.strip()
StripChars(t) == Strip(t)

\* extract_text(file): the text of a .pdf or .docx, HTTPException(400) otherwise.
ExtractText ==
    /\ pc = "extract_text"
    /\ IF file.ext \in {"pdf", "docx"}
       THEN /\ text' = file.extracted
            /\ pc' = "check_text"
            /\ UNCHANGED <<exc, response>>
       ELSE /\ exc' = "HTTPException"
            /\ response' = ErrorResponse(400)
            /\ pc' = "failed"
            /\ UNCHANGED text
    /\ UNCHANGED <<chunk_size, overlap, start, chunks, chunk_pc>>
    /\ UNCHANGED <<ai_raw, ai_parsed>>
    /\ UNCHANGED pipeVars
    /\ UNCHANGED extVars

\* if not text.strip(): raise HTTPException(400)
CheckText ==
    /\ pc = "check_text"
    /\ IF StripChars(text) = <<>>
       THEN /\ exc' = "HTTPException"
            /\ response' = ErrorResponse(400)
            /\ pc' = "failed"
       ELSE /\ pc' = "chunk_text"
            /\ UNCHANGED <<exc, response>>
    /\ UNCHANGED chunkVars
    /\ UNCHANGED <<ai_raw, ai_parsed>>
    /\ UNCHANGED pipeVars
    /\ UNCHANGED extVars

\* chunks = chunk_text(text): the call, with the default parameters.
ChunkCall ==
    /\ pc = "chunk_text"
    /\ chunk_pc = "idle"
    /\ chunk_size' = DefaultChunkSize
    /\ overlap' = DefaultOverlap
    /\ start' = 0
    /\ chunks' = <<>>
    /\ chunk_pc' = "loop"
    /\ UNCHANGED text
    /\ UNCHANGED reportVars
    /\ UNCHANGED pipeVars
    /\ UNCHANGED extVars

\* embedded_chunks = embed_chunks(chunks): the call, once chunk_text returned.
EmbedCall ==
    /\ pc = "chunk_text"
    /\ chunk_pc = "done"
    /\ embeddings' = <<>>
    /\ pc' = "embed_chunks"
    /\ UNCHANGED chunkVars
    /\ UNCHANGED <<ai_raw, ai_parsed, exc, response>>
    /\ UNCHANGED <<file, embedded_chunks, index, texts, relevant_chunks, context, calls, replies>>
    /\ UNCHANGED extVars

\* A request to the embeddings endpoint.
EmbeddingCall(input) == [api |-> "embeddings", input |-> input]

\* Mutant: only a server error aborts the batch.
EmbeddingFailedOnServerErrorOnly(status) == status = "500"

\* if res.status_code != 200
EmbeddingFailed(status) == status # "200"

\* One iteration of the for loop of embed_chunks: the provider answers the
\* request for the next chunk with any status and any embedding.
EmbedChunk ==
    /\ pc = "embed_chunks"
    /\ Len(embeddings) < Len(chunks)
    /\ LET chunk == chunks[Len(embeddings) + 1]
       IN  /\ calls' = Append(calls, EmbeddingCall(chunk))
           /\ \E status \in Statuses, vec \in Vectors :
                /\ replies' = Append(replies, Reply(status, vec, PyNone))
                /\ IF EmbeddingFailed(status)
                   THEN /\ exc' = "RuntimeError"
                        /\ response' = ErrorResponse(500)
                        /\ pc' = "failed"
                        /\ embeddings' = <<>>
                   ELSE /\ embeddings' =
                               Append(embeddings, [text |-> chunk, embedding |-> vec])
                        /\ UNCHANGED <<pc, exc, response>>
    /\ UNCHANGED chunkVars
    /\ UNCHANGED <<ai_raw, ai_parsed>>
    /\ UNCHANGED <<file, embedded_chunks, index, texts, relevant_chunks, context>>
    /\ UNCHANGED extVars

\* return embeddings
EmbedReturn ==
    /\ pc = "embed_chunks"
    /\ Len(embeddings) = Len(chunks)
    /\ embedded_chunks' = embeddings
    /\ pc' = "build_vector_store"
    /\ UNCHANGED chunkVars
    /\ UNCHANGED <<ai_raw, ai_parsed, exc, response>>
    /\ UNCHANGED <<file, embeddings, index, texts, relevant_chunks, context, calls, replies>>
    /\ UNCHANGED extVars

\* Mutant: embeddings of another length than the first are left out of the
\* index instead of failing the build.
build_vector_store_skipping_mismatched(embedded) ==
    IF embedded = <<>> THEN Raised("IndexError")
    ELSE LET dim == Len(embedded[1].embedding)
             kept == SelectSeq(embedded, LAMBDA e : Len(e.embedding) = dim)
         IN  Returned([index |-> [d |-> dim,
                                  vectors |-> [i \in 1..Len(kept) |-> kept[i].embedding]],
                       texts |-> [i \in 1..Len(kept) |-> kept[i].text]])

\* build_vector_store(embedded_chunks): embedded_chunks[0] of an empty list is
\* an IndexError; np.array of embeddings of unequal lengths is a ValueError.
build_vector_store(embedded) ==
    IF embedded = <<>> THEN Raised("IndexError")
    ELSE LET dim == Len(embedded[1].embedding)
         IN  IF \E i \in 1..Len(embedded) : Len(embedded[i].embedding) # dim
             THEN Raised("ValueError")
             ELSE Returned([index |-> [d |-> dim,
                                       vectors |-> [i \in 1..Len(embedded) |->
                                                        embedded[i].embedding]],
                            texts |-> [i \in 1..Len(embedded) |-> embedded[i].text]])

\* index, texts = build_vector_store(embedded_chunks)
BuildVectorStore ==
    /\ pc = "build_vector_store"
    /\ LET r == build_vector_store(embedded_chunks)
       IN  IF r.raised = ""
           THEN /\ index' = r.value.index
                /\ texts' = r.value.texts
                /\ pc' = "semantic_search"
                /\ UNCHANGED <<exc, response>>
           ELSE /\ exc' = r.raised
                /\ response' = ErrorResponse(500)
                /\ pc' = "failed"
                /\ UNCHANGED <<index, texts>>
    /\ UNCHANGED chunkVars
    /\ UNCHANGED <<ai_raw, ai_parsed>>
    /\ UNCHANGED <<file, embeddings, embedded_chunks, relevant_chunks, context, calls, replies>>
    /\ UNCHANGED extVars

RECURSIVE SqDist(_, _)
\* The squared Euclidean distance of two vectors of one length.
SqDist(u, v) ==
    IF u = <<>> THEN 0
    ELSE (Head(u) - Head(v)) * (Head(u) - Head(v)) + SqDist(Tail(u), Tail(v))

\* The 0-based position of the r-th nearest vector (r from 1): ascending
\* distance, the earlier vector first among equals.
Nearest(ix, q, r) ==
    CHOOSE i \in 1..Len(ix.vectors) :
        Cardinality({j \in 1..Len(ix.vectors) :
            \/ SqDist(ix.vectors[j], q) < SqDist(ix.vectors[i], q)
            \/ (SqDist(ix.vectors[j], q) = SqDist(ix.vectors[i], q) /\ j < i)}) = r - 1

\* Mutant: the missing labels are 0, the first vector, instead of -1.
IndexSearchPadsWithFirst(ix, q, k) ==
    [r \in 1..k |-> IF r <= Len(ix.vectors) THEN Nearest(ix, q, r) - 1 ELSE 0]

\* Mutant: every second search returns the labels of the indexed vectors in
\* the opposite order.
IndexSearchAlternating(ix, q, k) ==
    [r \in 1..k |->
        IF r > Len(ix.vectors) THEN -1
        ELSE IF Len(replies) % 2 = 0 THEN Nearest(ix, q, r) - 1
        ELSE Nearest(ix, q, Len(ix.vectors) + 1 - r) - 1]

\* index.search(query_vector, top_k)[1][0]: always k labels, -1 where the
\* index holds fewer than k vectors.
IndexSearch(ix, q, k) ==
    [r \in 1..k |-> IF r <= Len(ix.vectors) THEN Nearest(ix, q, r) - 1 ELSE -1]

\* s[i] for a Python list s: a negative i counts from the end.
PyIndex(s, i) == IF i < 0 THEN s[Len(s) + i + 1] ELSE s[i + 1]

\* [texts[i] for i in indices[0]]
SearchTexts(ix, ts, q, k) ==
    LET labels == IndexSearch(ix, q, k)
    IN  [r \in 1..k |-> PyIndex(ts, labels[r])]

\* The query of validate_document, as one token.
Query == <<"Australian Business Number ABN document date compliance">>

\* Mutant: a refused query embedding is requested again (twice at most).
SemanticSearchRetrying ==
    /\ pc = "semantic_search"
    /\ calls' = Append(calls, EmbeddingCall(Query))
    /\ \E status \in Statuses, query_embedding \in Vectors :
         /\ replies' = Append(replies, Reply(status, query_embedding, PyNone))
         /\ IF status # "200" /\ Len(calls) < Len(chunks) + 2
            THEN UNCHANGED <<pc, exc, response, relevant_chunks>>
            ELSE IF status # "200" \/ Len(query_embedding) # index.d
            THEN /\ exc' = IF status # "200" THEN "RuntimeError" ELSE "AssertionError"
                 /\ response' = ErrorResponse(500)
                 /\ pc' = "failed"
                 /\ UNCHANGED relevant_chunks
            ELSE /\ relevant_chunks' = SearchTexts(index, texts, query_embedding, TopK)
                 /\ pc' = "context"
                 /\ UNCHANGED <<exc, response>>
    /\ UNCHANGED chunkVars
    /\ UNCHANGED <<ai_raw, ai_parsed>>
    /\ UNCHANGED <<file, embeddings, embedded_chunks, index, texts, context>>
    /\ UNCHANGED extVars

\* relevant_chunks = semantic_search(index, texts, query, top_k=3): the
\* provider answers the request for the query with any status and embedding;
\* faiss asserts that the query has the dimension of the index.
SemanticSearch ==
    /\ pc = "semantic_search"
    /\ calls' = Append(calls, EmbeddingCall(Query))
    /\ \E status \in Statuses, query_embedding \in Vectors :
         /\ replies' = Append(replies, Reply(status, query_embedding, PyNone))
         /\ IF status # "200"
            THEN /\ exc' = "RuntimeError"
                 /\ response' = ErrorResponse(500)
                 /\ pc' = "failed"
                 /\ UNCHANGED relevant_chunks
            ELSE IF Len(query_embedding) # index.d
            THEN /\ exc' = "AssertionError"
                 /\ response' = ErrorResponse(500)
                 /\ pc' = "failed"
                 /\ UNCHANGED relevant_chunks
            ELSE /\ relevant_chunks' = SearchTexts(index, texts, query_embedding, TopK)
                 /\ pc' = "context"
                 /\ UNCHANGED <<exc, response>>
    /\ UNCHANGED chunkVars
    /\ UNCHANGED <<ai_raw, ai_parsed>>
    /\ UNCHANGED <<file, embeddings, embedded_chunks, index, texts, context>>
    /\ UNCHANGED extVars

\* semantic_search called on an index that stays in use: as SemanticSearch,
\* the caller keeping index and texts for the next call.
SearchAgain ==
    /\ pc = "semantic_search"
    /\ Len(replies) < MaxSearches
    /\ calls' = Append(calls, EmbeddingCall(Query))
    /\ \E status \in Statuses, query_embedding \in Vectors :
         /\ replies' = Append(replies, Reply(status, query_embedding, PyNone))
         /\ IF status # "200"
            THEN /\ exc' = "RuntimeError"
                 /\ response' = ErrorResponse(500)
                 /\ pc' = "failed"
                 /\ UNCHANGED relevant_chunks
            ELSE IF Len(query_embedding) # index.d
            THEN /\ exc' = "AssertionError"
                 /\ response' = ErrorResponse(500)
                 /\ pc' = "failed"
                 /\ UNCHANGED relevant_chunks
            ELSE /\ relevant_chunks' = SearchTexts(index, texts, query_embedding, TopK)
                 /\ UNCHANGED <<pc, exc, response>>
    /\ UNCHANGED chunkVars
    /\ UNCHANGED <<ai_raw, ai_parsed>>
    /\ UNCHANGED <<file, embeddings, embedded_chunks, index, texts, context>>
    /\ UNCHANGED extVars

\* The embedded chunks an index is built from: one to MaxIndexed chunks, the
\* i-th with a text of i characters, embeddings of one length.
EmbeddedBatches ==
    UNION {[1..n -> Vectors] : n \in 1..MaxIndexed}

\* build_vector_store has just returned index and texts.
SearchInit ==
    /\ \E vecs \in EmbeddedBatches :
         LET embedded == [i \in 1..Len(vecs) |->
                             [text |-> HelloText(i), embedding |-> vecs[i]]]
             built == build_vector_store(embedded)
         IN  /\ built.raised = ""
             /\ embedded_chunks = embedded
             /\ index = built.value.index
             /\ texts = built.value.texts
    /\ pc = "semantic_search"
    /\ ai_raw = PyNone /\ ai_parsed = PyNone /\ exc = "" /\ response = NoResponse
    /\ text = <<>> /\ chunk_size = 0 /\ overlap = 0 /\ start = 0
    /\ chunks = <<>> /\ chunk_pc = "idle"
    /\ file = NoFile /\ embeddings = <<>> /\ relevant_chunks = <<>>
    /\ context = <<>> /\ calls = <<>> /\ replies = <<>>
    /\ ExtIdle

SearchNext == SearchAgain

SearchSpec == SearchInit /\ [][SearchNext]_vars

RECURSIVE Join(_, _)
\* sep.join(parts)
Join(sep, parts) ==
    IF parts = <<>> THEN <<>>
    ELSE IF Len(parts) = 1 THEN parts[1]
    ELSE parts[1] \o sep \o Join(sep, Tail(parts))

\* Mutant: the cut drops the first character.
CutContextFromSecond(joined) == PySlice(joined, 1, MAX_CONTEXT_CHARS)

\* context[:MAX_CONTEXT_CHARS]
CutContext(joined) == PySlice(joined, 0, MAX_CONTEXT_CHARS)

\* context = "\n".join(relevant_chunks); context = context[:MAX_CONTEXT_CHARS]
BuildContext ==
    /\ pc = "context"
    /\ context' = CutContext(Join(<<"\n">>, relevant_chunks))
    /\ pc' = "analyze_document_with_ai"
    /\ UNCHANGED chunkVars
    /\ UNCHANGED <<ai_raw, ai_parsed, exc, response>>
    /\ UNCHANGED <<file, embeddings, embedded_chunks, index, texts, relevant_chunks, calls, replies>>
    /\ UNCHANGED extVars

\* A request to the chat completions endpoint.
CompletionCall(ctx) == [api |-> "chat/completions", input |-> ctx]

\* The completion texts tried in a whole request.
RequestAiTexts == AiScenarios \cup SeqsUpTo({"{", "}", "[", "]"}, 2)

\* The body of a 200 response without choices[0].message.content.
NoContent == PyNone

\* The responses of the completion provider: an error status with any body,
\* a 200 with any completion text, a 200 without the expected fields.
CompletionReplies ==
    {Reply(st, <<>>, PyStr(b)) : st \in Statuses \ {"200"}, b \in {<<>>, <<Prose>>}}
        \cup {Reply("200", <<>>, PyStr(t)) : t \in RequestAiTexts}
        \cup {Reply("200", <<>>, NoContent)}

\* What analyze_document_with_ai returns for the provider's response: the
\* error value for a status that is not 200, the completion text of a 200,
\* {"error": "AI analysis failed"} when reading the text raises.
analyze_document_with_ai(reply) ==
    IF reply.status # "200" THEN CompletionUnavailable(reply.status, reply.body.toks)
    ELSE IF reply.body = NoContent THEN CompletionFailed
    ELSE reply.body

\* ai_raw = analyze_document_with_ai(context): the provider answers with any
\* status; a 200 carries any completion text, or a body without the expected
\* fields.
AnalyzeDocumentWithAi ==
    /\ pc = "analyze_document_with_ai"
    /\ calls' = Append(calls, CompletionCall(context))
    /\ \E reply \in CompletionReplies :
         /\ replies' = Append(replies, reply)
         /\ ai_raw' = analyze_document_with_ai(reply)
    /\ pc' = "parse_ai_json"
    /\ UNCHANGED chunkVars
    /\ UNCHANGED <<ai_parsed, exc, response>>
    /\ UNCHANGED <<file, embeddings, embedded_chunks, index, texts, relevant_chunks, context>>
    /\ UNCHANGED extVars

\* A request arrives with any file.
Init ==
    /\ file \in Files
    /\ pc = "extract_text"
    /\ text = <<>> /\ chunk_size = 0 /\ overlap = 0 /\ start = 0
    /\ chunks = <<>> /\ chunk_pc = "idle"
    /\ ai_raw = PyNone /\ ai_parsed = PyNone /\ exc = "" /\ response = NoResponse
    /\ embeddings = <<>> /\ embedded_chunks = <<>> /\ index = NoIndex
    /\ texts = <<>> /\ relevant_chunks = <<>> /\ context = <<>> /\ calls = <<>>
    /\ replies = <<>>
    /\ ExtIdle

Next ==
    \/ ExtractText
    \/ CheckText
    \/ ChunkCall
    \/ ChunkLoopStep
    \/ ChunkReturn
    \/ EmbedCall
    \/ EmbedChunk
    \/ EmbedReturn
    \/ BuildVectorStore
    \/ SemanticSearch
    \/ BuildContext
    \/ AnalyzeDocumentWithAi
    \/ ParseAiJson
    \/ Aggregate

Spec == Init /\ [][Next]_vars

-----------------------------------------------------------------------------
(* The onboarding agent ("src/updated onborading agent (1)/main.py")         *)

\* The values of the Authorization header: none, empty, another scheme, the
\* scheme without the space, in lower case, and two that are accepted.
Auths ==
    {PyNone, PyStr(<<>>), PyStr(<<"Basic", " ", "abc">>), PyStr(<<"Bearer">>),
     PyStr(<<"bearer", " ", "tok">>), PyStr(<<"Bearer", " ", "tok">>),
     PyStr(<<"Bearer", " ", "tok2">>)}

\* s.startswith(prefix)
StartsWith(s, prefix) ==
    Len(s) >= Len(prefix) /\ \A i \in 1..Len(prefix) : s[i] = prefix[i]

\* Mutant: any header that is there is accepted.
get_headers_any_scheme(auth) ==
    IF ~Truthy(auth) THEN PyNone
    ELSE PyDict(<<"Authorization", "Content-Type">>,
                <<auth, PyStr(<<"application/json">>)>>)

\* get_headers: None without a header that starts with "Bearer ", else the
\* headers of the Graph request, the Authorization value as it came.
get_headers(auth) ==
    IF ~Truthy(auth) \/ ~StartsWith(auth.toks, <<"Bearer", " ">>) THEN PyNone
    ELSE PyDict(<<"Authorization", "Content-Type">>,
                <<auth, PyStr(<<"application/json">>)>>)

\* s.lower() over the characters a, A, b and the space.
Lower(s) == [i \in 1..Len(s) |-> IF s[i] = "A" THEN "a" ELSE s[i]]

\* The values a field of a list item may hold.
FieldValues ==
    {PyNone, PyStr(<<>>), PyStr(<<"a">>), PyStr(<<" ", "A", " ">>)}

\* The list items Graph may return: the i-th has id i, a Title of any value
\* and the Status "b".
ItemLists ==
    UNION {[1..n -> FieldValues] : n \in 0..MaxItems}

ItemOf(i, title) ==
    [id |-> i,
     fields |-> PyDict(<<"Title", "Client_x0020_Status">>, <<title, PyStr(<<"b">>)>>)]

\* The values of the query parameter.
Queries == {<<"a">>, <<"A", " ">>, <<"b">>, <<" ">>, <<"a", "b">>}

\* val and str(val).strip().lower() == clean_query
FieldMatches(val, clean_query) ==
    Truthy(val) /\ Lower(Strip(val.toks)) = clean_query

\* Some field of the item matches.
ItemMatches(item, clean_query) ==
    \E k \in 1..Len(item.fields.items) : FieldMatches(item.fields.items[k], clean_query)

\* The loop over items: the first item with a matching field, None if none.
FindTarget(items, clean_query) ==
    IF \E i \in 1..Len(items) : ItemMatches(items[i], clean_query)
    THEN items[CHOOSE i \in 1..Len(items) :
                  /\ ItemMatches(items[i], clean_query)
                  /\ \A j \in 1..(i - 1) : ~ItemMatches(items[j], clean_query)]
    ELSE PyNone

\* key.replace("_x0020_", " ").replace("_x002f_", "/") for the two keys.
CleanKey(key) ==
    IF key = "Client_x0020_Status" THEN "Client Status" ELSE key

\* fields_to_text(fields): one line per field, "key: value", or "key: Missing"
\* for a value that is empty or blank.
fields_to_text(fields) ==
    [k \in 1..Len(fields.keys) |->
        <<CleanKey(fields.keys[k]), ": ">>
            \o (IF Truthy(fields.items[k]) /\ Strip(fields.items[k].toks) # <<>>
                THEN fields.items[k].toks ELSE <<"Missing">>)]

\* res.status_code of a status line.
StatusCode(status) ==
    CASE status = "200" -> 200
      [] status = "404" -> 404
      [] status = "429" -> 429
      [] OTHER -> 500

\* The response of process_onboarding: status code and body.
OnbResponse(code, body) == [code |-> code, body |-> body]

\* A request to Graph or to the completion provider.
OnbCall(api, headers) == [api |-> api, headers |-> headers]

RECURSIVE StrReplace(_, _)
\* s.replace(pattern, ""): every non-overlapping occurrence from the left.
StrReplace(s, pattern) ==
    IF Len(s) < Len(pattern) THEN s
    ELSE IF SubSeq(s, 1, Len(pattern)) = pattern
         THEN StrReplace(SubSeq(s, Len(pattern) + 1, Len(s)), pattern)
         ELSE <<Head(s)>> \o StrReplace(Tail(s), pattern)

\* The value parse_ai_json returns when anything raises.
OnbFallback ==
    PyDict(<<"document_type", "status", "issues", "message">>,
           <<PyStr(<<"Client Onboarding / KYC">>),
             PyStr(<<"NEEDS_ATTENTION">>),
             PyDict(<<"missing_fields", "invalid_fields", "risks">>,
                    <<PyList(<<>>), PyList(<<>>),
                      PyList(<<PyStr(<<"AI response could not be parsed">>)>>)>>),
             PyStr(<<"Unable to reliably analyze onboarding data.">>)>>)

\* Mutant: only a JSONDecodeError is caught.
onb_parse_ai_json_decode_errors_only(ai_text) ==
    IF ai_text.kind # "str" THEN Raised("AttributeError")
    ELSE LET cleaned == Strip(StrReplace(StrReplace(ai_text.toks,
                                    <<Backtick, Backtick, Backtick, JsonWord>>),
                                    <<Backtick, Backtick, Backtick>>))
             loaded == JsonLoads(cleaned)
         IN  IF loaded.ok THEN Returned(loaded.val) ELSE Returned(OnbFallback)

\* parse_ai_json of the onboarding agent: .replace on anything but a string
\* raises AttributeError, json.loads raises JSONDecodeError; except Exception
\* turns both into the fallback.
onb_parse_ai_json(ai_text) ==
    IF ai_text.kind # "str" THEN Returned(OnbFallback)
    ELSE LET cleaned == Strip(StrReplace(StrReplace(ai_text.toks,
                                    <<Backtick, Backtick, Backtick, JsonWord>>),
                                    <<Backtick, Backtick, Backtick>>))
             loaded == JsonLoads(cleaned)
         IN  IF loaded.ok THEN Returned(loaded.val) ELSE Returned(OnbFallback)

\* The completion texts tried for the onboarding agent.
OnbAiTexts ==
    { <<"{", "\"issues\"", ":", "{", "\"missing_fields\"", ":", "[", "]", ",",
        "\"invalid_fields\"", ":", "[", "]", ",", "\"risks\"", ":", "[", "]", "}", "}">>,
      Fence \o <<JsonWord, Space, "{", "\"issues\"", ":", "{", "\"missing_fields\"", ":",
                 "[", "\"ABN\"", ",", "\"Attachments\"", "]", "}", "}", Space>> \o Fence,
      <<"{", "\"issues\"", ":", "{", "\"risks\"", ":", "[", "\"ABN\"", "]", ",",
        "\"invalid_fields\"", ":", "[", "\"ABN\"", "]", "}", "}">>,
      <<"{", "\"issues\"", ":", "{", "\"missing_fields\"", ":", "[", "0", "]", "}", "}">>,
      <<"{", "\"issues\"", ":", "null", "}">>,
      <<"{", "}">>,
      <<"0">>,
      <<>>,
      <<Space, Prose>>,
      <<"{", "\"issues\"", ":", "{", "\"risks\"", ":", "[", "]", "}">> }

\* The responses of the completion provider to the onboarding agent.
OnbAiReplies ==
    {Reply(st, <<>>, PyStr(b)) : st \in Statuses \ {"200"}, b \in {<<>>, <<Prose>>}}
        \cup {Reply("200", <<>>, PyStr(t)) : t \in OnbAiTexts}
        \cup {Reply("200", <<>>, NoContent)}

\* analyze_onboarding_with_ai: the error value for a status that is not 200,
\* else the completion text; a 200 without choices[0].message.content raises.
analyze_onboarding_with_ai(reply) ==
    IF reply.status # "200"
    THEN Returned(PyDict(<<"error", "status_code", "response">>,
                         <<PyStr(<<"AI analysis failed">>), PyInt(reply.status), reply.body>>))
    ELSE IF reply.body = NoContent THEN Raised("KeyError")
    ELSE Returned(reply.body)

SYSTEM_FIELDS ==
    {"Attachments", "Edit", "_ComplianceFlags", "_ComplianceTag",
     "_ComplianceTagWrittenTime", "_ComplianceTagUserId"}

\* d.get(k, default) for any d: AttributeError unless d is a dict.
GetOrRaise(d, k, default) ==
    IF d.kind = "dict" THEN Returned(DictGet(d, k, default)) ELSE Raised("AttributeError")

\* [f for f in fs if f not in SYSTEM_FIELDS]: iterating None or a number is a
\* TypeError, a string yields its characters, a dict its keys.
WithoutSystemFields(fs) ==
    IF fs.kind \in {"none", "int"} THEN Raised("TypeError")
    ELSE IF fs.kind = "list"
    THEN Returned(PyList(SelectSeq(fs.items,
             LAMBDA f : ~(f.kind = "str" /\ Len(f.toks) = 1 /\ f.toks[1] \in SYSTEM_FIELDS))))
    ELSE IF fs.kind = "dict"
    THEN Returned(PyList([i \in 1..Len(fs.keys) |-> PyStr(<<fs.keys[i]>>)]))
    ELSE Returned(PyList([i \in 1..Len(fs.toks) |-> PyStr(<<fs.toks[i]>>)]))

\* ', '.join(v) can be evaluated: v is a string, or a list or dict of strings.
Joinable(v) ==
    \/ v.kind = "str"
    \/ v.kind = "dict"
    \/ (v.kind = "list" /\ \A i \in 1..Len(v.items) : v.items[i].kind = "str")

\* The strings ', '.join(v) puts together, in order.
JoinedParts(v) ==
    IF v.kind = "list" THEN [i \in 1..Len(v.items) |-> v.items[i].toks]
    ELSE IF v.kind = "dict" THEN [i \in 1..Len(v.keys) |-> <<v.keys[i]>>]
    ELSE [i \in 1..Len(v.toks) |-> <<v.toks[i]>>]

\* One entry of messages: the label and the joined values.
MessagePart(label, v) == <<label>> \o Join(<<", ">>, JoinedParts(v))

CompleteAndValid == <<"The onboarding record is complete and valid.">>

\* Mutant: the risks are left out of the message.
OnbFinalMessageWithoutRisks(missing, invalid, risks) ==
    LET messages ==
            (IF Truthy(missing)
             THEN <<MessagePart("Missing required fields: ", missing)>> ELSE <<>>)
            \o (IF Truthy(invalid)
                THEN <<MessagePart("Invalid fields detected: ", invalid)>> ELSE <<>>)
    IN  IF messages # <<>> THEN Join(<<" | ">>, messages) ELSE CompleteAndValid

\* final_message: the entries of messages joined by " | ", or the sentence
\* for a record without issues.
OnbFinalMessage(missing, invalid, risks) ==
    LET messages ==
            (IF Truthy(missing)
             THEN <<MessagePart("Missing required fields: ", missing)>> ELSE <<>>)
            \o (IF Truthy(invalid)
                THEN <<MessagePart("Invalid fields detected: ", invalid)>> ELSE <<>>)
            \o (IF Truthy(risks)
                THEN <<MessagePart("Risk indicators found: ", risks)>> ELSE <<>>)
    IN  IF messages # <<>> THEN Join(<<" | ">>, messages) ELSE CompleteAndValid

\* Lines 180-227: the report built from ai_result, or the exception raised
\* on the way.
OnbReport(ai_result) ==
    LET issues == GetOrRaise(ai_result, "issues", PyDict(<<>>, <<>>))
    IN  IF issues.raised # "" THEN issues
        ELSE LET fs == GetOrRaise(issues.value, "missing_fields", PyList(<<>>))
                 inv == GetOrRaise(issues.value, "invalid_fields", PyList(<<>>))
                 rs == GetOrRaise(issues.value, "risks", PyList(<<>>))
             IN  IF fs.raised # "" THEN fs
                 ELSE LET missing == WithoutSystemFields(fs.value)
                      IN  IF missing.raised # "" THEN missing
                          ELSE IF \/ (Truthy(missing.value) /\ ~Joinable(missing.value))
                                  \/ (Truthy(inv.value) /\ ~Joinable(inv.value))
                                  \/ (Truthy(rs.value) /\ ~Joinable(rs.value))
                          THEN Raised("TypeError")
                          ELSE Returned(PyDict(
                                   <<"missing_fields", "invalid_fields", "risk_fields", "message">>,
                                   <<missing.value, inv.value, rs.value,
                                     PyStr(OnbFinalMessage(missing.value, inv.value, rs.value))>>))

\* except Exception as e: raise HTTPException(status_code=500, detail=str(e))
OnbRaisedInTry(e) ==
    [onb EXCEPT !.pc = "done", !.exc = e, !.response = OnbResponse(500, PyNone)]

\* headers = get_headers(request); 401 without them.
OnbGetHeaders ==
    /\ onb # <<>> /\ onb.pc = "get_headers"
    /\ onb' = IF ~Truthy(get_headers(onb.auth))
              THEN [onb EXCEPT !.pc = "done", !.exc = "HTTPException",
                               !.response = OnbResponse(401, PyNone)]
              ELSE [onb EXCEPT !.pc = "site", !.headers = get_headers(onb.auth)]
    /\ UNCHANGED <<other, list_items, upserts, graph_calls, served>>
    /\ UNCHANGED chunkVars
    /\ UNCHANGED reportVars
    /\ UNCHANGED <<file, embeddings, embedded_chunks, index, texts, relevant_chunks,
                   context, calls, replies>>

\* 1. Resolve Site ID: Graph's status is passed on when it is not ok.
OnbGetSite ==
    /\ onb # <<>> /\ onb.pc = "site"
    /\ \E status \in Statuses \cup {"404"} :
         onb' = IF status # "200"
                THEN [onb EXCEPT !.pc = "done",
                                 !.calls = Append(@, OnbCall("graph/sites", onb.headers)),
                                 !.response = OnbResponse(StatusCode(status), PyNone)]
                ELSE [onb EXCEPT !.pc = "items",
                                 !.calls = Append(@, OnbCall("graph/sites", onb.headers))]
    /\ UNCHANGED <<other, list_items, upserts, graph_calls, served>>
    /\ UNCHANGED chunkVars
    /\ UNCHANGED reportVars
    /\ UNCHANGED <<file, embeddings, embedded_chunks, index, texts, relevant_chunks,
                   context, calls, replies>>

\* 2. Fetch list items, 3. find the matching record, 4. fields to text: Graph
\* answers with any items; the HTTPException(404) is raised inside the try.
OnbFindRecord ==
    /\ onb # <<>> /\ onb.pc = "items"
    /\ \E titles \in ItemLists :
         LET items == [i \in 1..Len(titles) |-> ItemOf(i, titles[i])]
             clean_query == Lower(Strip(onb.query))
             target_item == FindTarget(items, clean_query)
             called == [onb EXCEPT !.calls = Append(@, OnbCall("graph/items", onb.headers)),
                                   !.items = items]
         IN  onb' = IF target_item = PyNone
                    THEN [called EXCEPT !.pc = "done", !.exc = "HTTPException",
                                        !.response = OnbResponse(500, PyNone)]
                    ELSE [called EXCEPT !.pc = "analyze_onboarding_with_ai",
                                        !.target_item = target_item,
                                        !.context = fields_to_text(target_item.fields)]
    /\ UNCHANGED <<other, list_items, upserts, graph_calls, served>>
    /\ UNCHANGED chunkVars
    /\ UNCHANGED reportVars
    /\ UNCHANGED <<file, embeddings, embedded_chunks, index, texts, relevant_chunks,
                   context, calls, replies>>

\* ai_raw = analyze_onboarding_with_ai(context)
OnbAnalyze ==
    /\ onb # <<>> /\ onb.pc = "analyze_onboarding_with_ai"
    /\ \E reply \in OnbAiReplies :
         LET r == analyze_onboarding_with_ai(reply)
             called == [onb EXCEPT !.calls = Append(@, OnbCall("chat/completions", PyNone)),
                                   !.ai_reply = reply]
         IN  onb' = IF r.raised # ""
                    THEN [called EXCEPT !.pc = "done", !.exc = r.raised,
                                        !.response = OnbResponse(500, PyNone)]
                    ELSE [called EXCEPT !.pc = "parse_ai_json", !.ai_raw = r.value]
    /\ UNCHANGED <<other, list_items, upserts, graph_calls, served>>
    /\ UNCHANGED chunkVars
    /\ UNCHANGED reportVars
    /\ UNCHANGED <<file, embeddings, embedded_chunks, index, texts, relevant_chunks,
                   context, calls, replies>>

\* ai_result = parse_ai_json(ai_raw) and the statements up to the return.
OnbParseAndReport ==
    /\ onb # <<>> /\ onb.pc = "parse_ai_json"
    /\ LET parsed == onb_parse_ai_json(onb.ai_raw)
       IN  onb' = IF parsed.raised # "" THEN OnbRaisedInTry(parsed.raised)
                  ELSE LET report == OnbReport(parsed.value)
                       IN  IF report.raised # ""
                           THEN [OnbRaisedInTry(report.raised) EXCEPT !.ai_result = parsed.value]
                           ELSE [onb EXCEPT !.pc = "done", !.ai_result = parsed.value,
                                            !.response = OnbResponse(200, report.value)]
    /\ UNCHANGED <<other, list_items, upserts, graph_calls, served>>
    /\ UNCHANGED chunkVars
    /\ UNCHANGED reportVars
    /\ UNCHANGED <<file, embeddings, embedded_chunks, index, texts, relevant_chunks,
                   context, calls, replies>>

\* A request arrives with any Authorization header and any query.
OnbInit ==
    /\ \E auth \in Auths, query \in Queries :
         onb = [pc |-> "get_headers", auth |-> auth, query |-> query,
                headers |-> PyNone, items |-> <<>>, target_item |-> PyNone,
                context |-> <<>>, ai_reply |-> PyNone, ai_raw |-> PyNone,
                ai_result |-> PyNone, exc |-> "", response |-> OnbResponse(0, PyNone),
                calls |-> <<>>]
    /\ other = <<>> /\ list_items = <<>> /\ upserts = <<>> /\ graph_calls = <<>>
    /\ served = <<>>
    /\ text = <<>> /\ chunk_size = 0 /\ overlap = 0 /\ start = 0
    /\ chunks = <<>> /\ chunk_pc = "idle"
    /\ ReportIdle
    /\ PipeIdle

OnbNext ==
    \/ OnbGetHeaders
    \/ OnbGetSite
    \/ OnbFindRecord
    \/ OnbAnalyze
    \/ OnbParseAndReport

OnbSpec == OnbInit /\ [][OnbNext]_vars

-----------------------------------------------------------------------------
(* The SharePoint proxy ("src/sharepoint/new.py")                            *)

\* The requests to upsert_list_item that may be in flight together.
Requests == {1, 2}

\* The system fields upsert_list_item removes before it writes.
CleanupFields ==
    <<"PercentComplete", "LastUpdated", "Created", "Modified", "ID", "Author", "Editor">>

\* The fields objects tried: with and without system fields, two emails, an
\* empty email, no email.
FieldsObjects ==
    { PyDict(<<"EmailAddress", "Title">>, <<PyStr(<<"e1">>), PyStr(<<"a">>)>>),
      PyDict(<<"ID", "EmailAddress", "Created", "Title", "PercentComplete", "Editor">>,
             <<PyInt("7"), PyStr(<<"e1">>), PyStr(<<"x">>), PyStr(<<"b">>), PyInt("0"),
               PyStr(<<"x">>)>>),
      PyDict(<<"EmailAddress">>, <<PyStr(<<"e2">>)>>),
      PyDict(<<"EmailAddress">>, <<PyStr(<<>>)>>),
      PyDict(<<"Title">>, <<PyStr(<<"a">>)>>) }

\* The JSON bodies tried: none, an empty object, an object without fields,
\* and an object with each of the fields objects.
Bodies ==
    {PyNone, PyDict(<<>>, <<>>), PyDict(<<"name">>, <<PyStr(<<"a">>)>>)}
        \cup {PyDict(<<"fields">>, <<f>>) : f \in FieldsObjects}

\* The Authorization headers tried with upsert_list_item.
UpsertAuths ==
    {PyNone, PyStr(<<"Basic", " ", "abc">>), PyStr(<<"Bearer", " ", "tok">>),
     PyStr(<<"Bearer", " ", "tok2">>)}

\* k in d
HasKey(d, k) == \E i \in 1..Len(d.keys) : d.keys[i] = k

\* Mutant: the last of the system fields is left in.
RemoveCleanupFieldsButLast(fields) ==
    LET kept == {i \in 1..Len(fields.keys) :
                    \A n \in 1..(Len(CleanupFields) - 1) : CleanupFields[n] # fields.keys[i]}
        pos == SelectSeq([i \in 1..Len(fields.keys) |-> i], LAMBDA i : i \in kept)
    IN  PyDict([n \in 1..Len(pos) |-> fields.keys[pos[n]]],
               [n \in 1..Len(pos) |-> fields.items[pos[n]]])

\* for f in [...]: fields.pop(f, None)
RemoveCleanupFields(fields) ==
    LET kept == {i \in 1..Len(fields.keys) :
                    \A n \in 1..Len(CleanupFields) : CleanupFields[n] # fields.keys[i]}
        pos == SelectSeq([i \in 1..Len(fields.keys) |-> i], LAMBDA i : i \in kept)
    IN  PyDict([n \in 1..Len(pos) |-> fields.keys[pos[n]]],
               [n \in 1..Len(pos) |-> fields.items[pos[n]]])

\* search_headers: the headers and the Prefer header.
SearchHeaders(headers) ==
    DictSet(headers, "Prefer", PyStr(<<"HonorNonIndexedQueriesWarningMayFailRandomly">>))

\* What Graph returns for $filter=fields/EmailAddress eq 'email': the items of
\* the list with that email, in list order.
ItemsWithEmail(items, email) ==
    SelectSeq(items, LAMBDA it : DictGet(it.fields, "EmailAddress", PyNone) = email)

RECURSIVE MergeFields(_, _, _)
\* The fields of an item after a PATCH with the given fields, from the n-th.
MergeFields(old, new, n) ==
    IF n > Len(new.keys) THEN old
    ELSE MergeFields(DictSet(old, new.keys[n], new.items[n]), new, n + 1)

\* A request to Graph made for request r.
GraphCall(r, method, headers, ok, item_id, fields) ==
    [req |-> r, method |-> method, headers |-> headers, ok |-> ok,
     item_id |-> item_id, fields |-> fields]

\* The response of the proxy.
ProxyResponse(code) == [code |-> code]

\* A request that has just arrived.
NewUpsert(auth, body) ==
    [pc |-> "get_headers", auth |-> auth, body |-> body, headers |-> PyNone,
     fields |-> PyNone, email |-> PyNone, existing_items |-> <<>>,
     response |-> ProxyResponse(0)]

\* Lines 97-113: get_headers, the checks of the body and of the email.
UpsertCheck ==
    /\ \E r \in DOMAIN upserts :
         /\ upserts[r].pc = "get_headers"
         /\ LET u == upserts[r]
                headers == get_headers(u.auth)
                fields == DictGet(u.body, "fields", PyNone)
                email == IF fields.kind = "dict"
                         THEN DictGet(fields, "EmailAddress", PyNone) ELSE PyNone
            IN  upserts' = [upserts EXCEPT ![r] =
                  IF ~Truthy(headers)
                  THEN [u EXCEPT !.pc = "done", !.response = ProxyResponse(401)]
                  ELSE IF ~Truthy(u.body) \/ ~HasKey(u.body, "fields")
                  THEN [u EXCEPT !.pc = "done", !.headers = headers,
                                 !.response = ProxyResponse(400)]
                  ELSE IF ~Truthy(email)
                  THEN [u EXCEPT !.pc = "done", !.headers = headers, !.fields = fields,
                                 !.response = ProxyResponse(400)]
                  ELSE [u EXCEPT !.pc = "search", !.headers = headers,
                                 !.fields = fields, !.email = email]]
    /\ UNCHANGED <<list_items, graph_calls, served>>
    /\ UNCHANGED <<other, onb>>
    /\ UNCHANGED chunkVars
    /\ UNCHANGED reportVars
    /\ UNCHANGED pipeVars

\* Lines 116-129: the search for the email, answered by Graph from the list
\* as it is now, or refused; then the cleanup of the system fields.
UpsertSearch ==
    /\ \E r \in DOMAIN upserts, ok \in BOOLEAN :
         /\ upserts[r].pc = "search"
         /\ LET u == upserts[r]
            IN  /\ graph_calls' = Append(graph_calls,
                       GraphCall(r, "GET", SearchHeaders(u.headers), ok, 0, PyNone))
                /\ upserts' = [upserts EXCEPT ![r] =
                       IF ~ok
                       THEN [u EXCEPT !.pc = "done", !.response = ProxyResponse(500)]
                       ELSE [u EXCEPT !.pc = "write",
                                      !.existing_items = ItemsWithEmail(list_items, u.email),
                                      !.fields = RemoveCleanupFields(u.fields)]]
    /\ UNCHANGED <<list_items, served>>
    /\ UNCHANGED <<other, onb>>
    /\ UNCHANGED chunkVars
    /\ UNCHANGED reportVars
    /\ UNCHANGED pipeVars

\* Lines 131-148: PATCH of the first item found, or POST of a new item; Graph
\* carries the write out or refuses it.
UpsertWrite ==
    /\ \E r \in DOMAIN upserts, ok \in BOOLEAN :
         /\ upserts[r].pc = "write"
         /\ LET u == upserts[r]
            IN  IF Len(u.existing_items) > 0
                THEN LET item_id == u.existing_items[1].id
                     IN  /\ graph_calls' = Append(graph_calls,
                                GraphCall(r, "PATCH", u.headers, ok, item_id, u.fields))
                         /\ list_items' =
                                IF ok
                                THEN [i \in 1..Len(list_items) |->
                                        IF list_items[i].id = item_id
                                        THEN [list_items[i] EXCEPT
                                                !.fields = MergeFields(@, u.fields, 1)]
                                        ELSE list_items[i]]
                                ELSE list_items
                         /\ upserts' = [upserts EXCEPT ![r] =
                                [u EXCEPT !.pc = "done",
                                          !.response = ProxyResponse(IF ok THEN 200 ELSE 500)]]
                ELSE /\ graph_calls' = Append(graph_calls,
                            GraphCall(r, "POST", u.headers, ok, 0, u.fields))
                     /\ list_items' =
                            IF ok
                            THEN Append(list_items,
                                        [id |-> Len(list_items) + 1, fields |-> u.fields])
                            ELSE list_items
                     /\ upserts' = [upserts EXCEPT ![r] =
                            [u EXCEPT !.pc = "done",
                                      !.response = ProxyResponse(IF ok THEN 201 ELSE 500)]]
    /\ UNCHANGED served
    /\ UNCHANGED <<other, onb>>
    /\ UNCHANGED chunkVars
    /\ UNCHANGED reportVars
    /\ UNCHANGED pipeVars

\* The list before the requests: empty, or holding one profile.
InitialLists ==
    {<<>>,
     <<[id |-> 1, fields |-> PyDict(<<"EmailAddress", "Title">>,
                                    <<PyStr(<<"e1">>), PyStr(<<"a">>)>>)]>>}

\* No endpoint has answered yet.
NoServed == [endpoint |-> "", auth |-> PyNone, code |-> 0, sent |-> PyNone]

\* Everything but the proxy is idle.
ProxyOnly ==
    /\ other = <<>> /\ onb = <<>>
    /\ text = <<>> /\ chunk_size = 0 /\ overlap = 0 /\ start = 0
    /\ chunks = <<>> /\ chunk_pc = "idle"
    /\ ReportIdle
    /\ PipeIdle

\* Two requests to upsert_list_item arrive, with any headers and bodies.
UpsertInit ==
    /\ list_items \in InitialLists
    /\ upserts \in [Requests -> {NewUpsert(a, b) : a \in UpsertAuths, b \in Bodies}]
    /\ graph_calls = <<>>
    /\ served = NoServed
    /\ ProxyOnly

UpsertNext == UpsertCheck \/ UpsertSearch \/ UpsertWrite

UpsertSpec == UpsertInit /\ [][UpsertNext]_vars

\* The endpoints that pass one request on to Graph: the route and what the
\* request may lack besides the header (the file of an upload).
ServedBy(endpoint, auth, code, sent) ==
    [endpoint |-> endpoint, auth |-> auth, code |-> code, sent |-> sent]

\* The body shared by get_site, get_lists, get_list_items, get_libraries,
\* get_documents and graph_get_users: 401 without headers, else one GET with
\* the headers, whose status is passed on when it is not ok.
ProxyGet(endpoint) ==
    \E auth \in Auths, status \in Statuses :
        served' = IF ~Truthy(get_headers(auth))
                  THEN ServedBy(endpoint, auth, 401, PyNone)
                  ELSE ServedBy(endpoint, auth, StatusCode(status), get_headers(auth))

ProxyFrame ==
    /\ UNCHANGED <<list_items, upserts, graph_calls>>
    /\ UNCHANGED <<other, onb>>
    /\ UNCHANGED chunkVars
    /\ UNCHANGED reportVars
    /\ UNCHANGED pipeVars

get_site == ProxyGet("/sharepoint/site") /\ ProxyFrame

get_lists == ProxyGet("/sharepoint/<site_id>/lists") /\ ProxyFrame

get_list_items == ProxyGet("/sharepoint/<site_id>/lists/<list_id>/items") /\ ProxyFrame

get_libraries == ProxyGet("/sharepoint/<site_id>/libraries") /\ ProxyFrame

get_documents ==
    ProxyGet("/sharepoint/<site_id>/libraries/<drive_id>/documents") /\ ProxyFrame

graph_get_users == ProxyGet("/graph/users") /\ ProxyFrame

\* upload_document: 401 without headers, 400 without a file, else one PUT
\* with headers["Authorization"] and the content type of the file.
upload_document ==
    /\ \E auth \in Auths, has_file \in BOOLEAN, status \in Statuses :
         LET headers == get_headers(auth)
             endpoint == "/sharepoint/<site_id>/libraries/<drive_id>/upload"
         IN  served' =
               IF ~Truthy(headers) THEN ServedBy(endpoint, auth, 401, PyNone)
               ELSE IF ~has_file THEN ServedBy(endpoint, auth, 400, PyNone)
               ELSE ServedBy(endpoint, auth, StatusCode(status),
                             PyDict(<<"Authorization", "Content-Type">>,
                                    <<DictGet(headers, "Authorization", PyNone),
                                      PyStr(<<"application/octet-stream">>)>>))
    /\ ProxyFrame

\* health: answers without reading the headers and without a call.
health ==
    /\ \E auth \in Auths : served' = ServedBy("/health", auth, 200, PyNone)
    /\ ProxyFrame

\* One request to upsert_list_item arrives; the other endpoints are called
\* at any time.
ProxyInit ==
    /\ list_items \in InitialLists
    /\ upserts \in [{1} -> {NewUpsert(a, b) : a \in UpsertAuths, b \in Bodies}]
    /\ graph_calls = <<>>
    /\ served = NoServed
    /\ ProxyOnly

ProxyNext ==
    \/ get_site
    \/ get_lists
    \/ get_list_items
    \/ UpsertCheck
    \/ UpsertSearch
    \/ UpsertWrite
    \/ get_libraries
    \/ get_documents
    \/ upload_document
    \/ graph_get_users
    \/ health

ProxySpec == ProxyInit /\ [][ProxyNext]_vars

-----------------------------------------------------------------------------
(* Two requests to validate_document in flight *)

\* The locals of the request that is running, as one value.
Frame ==
    [text |-> text, chunk_size |-> chunk_size, overlap |-> overlap, start |-> start,
     chunks |-> chunks, chunk_pc |-> chunk_pc, pc |-> pc, ai_raw |-> ai_raw,
     ai_parsed |-> ai_parsed, exc |-> exc, response |-> response, file |-> file,
     embeddings |-> embeddings, embedded_chunks |-> embedded_chunks, index |-> index,
     texts |-> texts, relevant_chunks |-> relevant_chunks, context |-> context,
     calls |-> calls, replies |-> replies]

\* The locals of a request that has just arrived with the file.
NewFrame(f) ==
    [text |-> <<>>, chunk_size |-> 0, overlap |-> 0, start |-> 0,
     chunks |-> <<>>, chunk_pc |-> "idle", pc |-> "extract_text", ai_raw |-> PyNone,
     ai_parsed |-> PyNone, exc |-> "", response |-> NoResponse, file |-> f,
     embeddings |-> <<>>, embedded_chunks |-> <<>>, index |-> NoIndex,
     texts |-> <<>>, relevant_chunks |-> <<>>, context |-> <<>>,
     calls |-> <<>>, replies |-> <<>>]

\* The locals of the frame become the running request's, but for texts.
ResumeAllButTexts(f) ==
    /\ text' = f.text /\ chunk_size' = f.chunk_size /\ overlap' = f.overlap
    /\ start' = f.start /\ chunks' = f.chunks /\ chunk_pc' = f.chunk_pc
    /\ pc' = f.pc /\ ai_raw' = f.ai_raw /\ ai_parsed' = f.ai_parsed
    /\ exc' = f.exc /\ response' = f.response /\ file' = f.file
    /\ embeddings' = f.embeddings /\ embedded_chunks' = f.embedded_chunks
    /\ index' = f.index
    /\ relevant_chunks' = f.relevant_chunks /\ context' = f.context
    /\ calls' = f.calls /\ replies' = f.replies

\* Mutant: texts is one list that the two requests share.
SwitchSharingTexts ==
    /\ other # <<>>
    /\ other.pc \notin {"done", "failed"}
    /\ other' = Frame
    /\ ResumeAllButTexts(other)
    /\ UNCHANGED texts
    /\ UNCHANGED <<onb, list_items, upserts, graph_calls, served>>

\* The server leaves the running request where it is and goes on with the
\* other one: every local of validate_document and of the functions it calls
\* belongs to the call, and the module has no variable that a request writes.
Switch ==
    /\ other # <<>>
    /\ other.pc \notin {"done", "failed"}
    /\ other' = Frame
    /\ ResumeAllButTexts(other)
    /\ texts' = other.texts
    /\ UNCHANGED <<onb, list_items, upserts, graph_calls, served>>

\* The files of the two requests: documents of one chunk with different
\* texts.
FirstFile == [ext |-> "pdf", extracted |-> HelloText(1)]
SecondFile == [ext |-> "docx", extracted |-> HelloText(2)]

\* Two requests arrive; the first is running.
ConcurrentInit ==
    /\ file = FirstFile
    /\ pc = "extract_text"
    /\ text = <<>> /\ chunk_size = 0 /\ overlap = 0 /\ start = 0
    /\ chunks = <<>> /\ chunk_pc = "idle"
    /\ ai_raw = PyNone /\ ai_parsed = PyNone /\ exc = "" /\ response = NoResponse
    /\ embeddings = <<>> /\ embedded_chunks = <<>> /\ index = NoIndex
    /\ texts = <<>> /\ relevant_chunks = <<>> /\ context = <<>> /\ calls = <<>>
    /\ replies = <<>>
    /\ other = NewFrame(SecondFile)
    /\ onb = <<>> /\ list_items = <<>> /\ upserts = <<>> /\ graph_calls = <<>>
    /\ served = <<>>

ConcurrentNext ==
    \/ ExtractText
    \/ CheckText
    \/ ChunkCall
    \/ ChunkLoopStep
    \/ ChunkReturn
    \/ EmbedCall
    \/ EmbedChunk
    \/ EmbedReturn
    \/ BuildVectorStore
    \/ SemanticSearch
    \/ BuildContext
    \/ AnalyzeDocumentWithAi
    \/ ParseAiJson
    \/ Aggregate
    \/ Switch

ConcurrentSpec == ConcurrentInit /\ [][ConcurrentNext]_vars

-----------------------------------------------------------------------------
(* Properties of semantic_search *)

\* semantic_search has returned.
SearchReturned ==
    pc \in {"context", "analyze_document_with_ai", "parse_ai_json", "aggregate", "done"}

\* C2: semantic_search returns exactly min(top_k, number of indexed chunks)
\* texts, never more results than the index holds.
C2_SearchReturnsMinTopKCount ==
    SearchReturned => Len(relevant_chunks) = Min(TopK, Len(texts))

-----------------------------------------------------------------------------
(* Properties of parse_ai_json *)

\* parse_ai_json has been applied to ai_raw.
ParseActed == pc \in {"aggregate", "done", "failed"} /\ ai_raw # PyNone

\* ai_raw is the error value of a completion response that was not a 200.
IsCompletionUnavailable(v) ==
    v.kind = "dict" /\ v.keys = <<"error", "status_code", "response">>

\* C3: given the structured error value of a non-200 completion response,
\* parse_ai_json returns that same mapping unchanged and does not raise.
C3_ErrorValuePassesThrough ==
    (ParseActed /\ IsCompletionUnavailable(ai_raw))
        => (exc = "" /\ ai_parsed = ai_raw)

\* C5: for every string parse_ai_json returns a mapping and never raises.
C5_TotalOnStrings ==
    (ParseActed /\ ai_raw.kind = "str")
        => (exc # "TypeError" /\ ai_parsed.kind = "dict")

\* The string fails strict JSON parsing after fence removal and trimming.
FailsJsonParsing(v) == ~JsonLoads(Strip(ReSubFences(v.toks, 1))).ok

\* {"error": "Invalid JSON returned by AI", "raw_response": raw}
ExpectedFallback(raw) ==
    [kind |-> "dict", toks |-> <<>>, keys |-> <<"error", "raw_response">>,
     items |-> <<[kind |-> "str", toks |-> <<"Invalid JSON returned by AI">>,
                  keys |-> <<>>, items |-> <<>>], raw>>]

\* C9 (as stated): for every string that fails strict JSON parsing after fence
\* removal and trimming, the empty string included, parse_ai_json returns
\* {error: "Invalid JSON returned by AI", raw_response: raw} with the
\* original text as raw.
C9_FallbackAsStated ==
    (ParseActed /\ ai_raw.kind = "str" /\ FailsJsonParsing(ai_raw))
        => (exc # "TypeError" /\ ai_parsed = ExpectedFallback(ai_raw))

\* C9 (amended): for every non-empty string that fails strict JSON parsing
\* after fence removal and trimming, parse_ai_json returns
\* {error: "Invalid JSON returned by AI", raw_response: raw} with the original
\* text as raw; for the empty string it returns {error: "Empty AI response"}.
C9_FallbackForNonEmpty ==
    (ParseActed /\ ai_raw.kind = "str" /\ FailsJsonParsing(ai_raw))
        => /\ exc # "TypeError"
           /\ ai_raw.toks # <<>> => ai_parsed = ExpectedFallback(ai_raw)
           /\ ai_raw.toks = <<>> =>
                 (ai_parsed.keys = <<"error">>
                    /\ ai_parsed.items[1].toks = <<"Empty AI response">>)

\* A text with fences in it, which the cleaning changes, got the fallback with
\* the text as it came.
C9_Witness ==
    /\ ParseActed /\ ai_raw.kind = "str" /\ FailsJsonParsing(ai_raw)
    /\ Strip(ReSubFences(ai_raw.toks, 1)) # ai_raw.toks
    /\ Strip(ReSubFences(ai_raw.toks, 1)) # <<>>
    /\ ai_parsed = ExpectedFallback(ai_raw)

-----------------------------------------------------------------------------
(* Properties of validate_document *)

\* C4: a non-200 response of the completion provider never ends the request
\* in a raised error; the request still returns a structured report.
C4_CompletionFailureStillReports ==
    (IsCompletionUnavailable(ai_raw) /\ pc \in {"done", "failed"})
        => (pc = "done" /\ exc = "" /\ response.code = 200
              /\ response.status \in {"CLEAR", "NEEDS_ATTENTION"})

\* A sequence, string or mapping with at least one element.
NonEmpty(v) ==
    \/ (v.kind = "list" /\ Len(v.items) > 0)
    \/ (v.kind = "dict" /\ Len(v.keys) > 0)
    \/ (v.kind = "str" /\ Len(v.toks) > 0)

\* The value under key k of the parsed mapping, the empty list when absent.
FieldOf(parsed, k) ==
    IF \E i \in 1..Len(parsed.keys) : parsed.keys[i] = k
    THEN parsed.items[CHOOSE i \in 1..Len(parsed.keys) : parsed.keys[i] = k]
    ELSE [kind |-> "list", toks |-> <<>>, keys |-> <<>>, items |-> <<>>]

Lacks(parsed, k) == \A i \in 1..Len(parsed.keys) : parsed.keys[i] # k

\* The string made of the one token tok.
StrVal(tok) == [kind |-> "str", toks |-> <<tok>>, keys |-> <<>>, items |-> <<>>]

\* The empty list.
EmptyListVal == [kind |-> "list", toks |-> <<>>, keys |-> <<>>, items |-> <<>>]

\* The report of a mapping without any of the fields read.
IsDefaultReport(r) ==
    /\ r.code = 200
    /\ r.document_type = StrVal("Unknown")
    /\ r.message = StrVal("Document analysis completed.")
    /\ r.status = "CLEAR"
    /\ r.missing_fields = EmptyListVal
    /\ r.invalid_fields = EmptyListVal
    /\ r.risks = EmptyListVal

\* C11 (as stated): a mapping that lacks document_type, message,
\* missing_fields and risks is reported with document_type "Unknown", message
\* "Document analysis completed.", status CLEAR and three empty sequences.
C11_DefaultsAsStated ==
    (pc = "done" /\ Lacks(ai_parsed, "document_type") /\ Lacks(ai_parsed, "message")
        /\ Lacks(ai_parsed, "missing_fields") /\ Lacks(ai_parsed, "risks"))
        => IsDefaultReport(response)

\* C11 (amended): a mapping that lacks document_type, summary, missing_fields
\* and risks (in particular the empty mapping) is reported with document_type
\* "Unknown", message "Document analysis completed.", status CLEAR and three
\* empty sequences.
C11_DefaultsWithoutSummary ==
    (pc = "done" /\ Lacks(ai_parsed, "document_type") /\ Lacks(ai_parsed, "summary")
        /\ Lacks(ai_parsed, "missing_fields") /\ Lacks(ai_parsed, "risks"))
        => IsDefaultReport(response)

\* A mapping with a message key, but none of the keys read, got the default report.
C11_Witness ==
    /\ pc = "done"
    /\ ~Lacks(ai_parsed, "message")
    /\ Lacks(ai_parsed, "document_type") /\ Lacks(ai_parsed, "summary")
    /\ Lacks(ai_parsed, "missing_fields") /\ Lacks(ai_parsed, "risks")
    /\ IsDefaultReport(response)

\* The completion provider answered 200 with a non-empty text that is not JSON.
ProseReturned ==
    /\ replies # <<>>
    /\ replies[Len(replies)].status = "200"
    /\ replies[Len(replies)].body # NoContent
    /\ ai_raw = replies[Len(replies)].body
    /\ ai_raw.kind = "str" /\ ai_raw.toks # <<>>
    /\ FailsJsonParsing(ai_raw)

\* C12: when the completion provider returns non-JSON prose, the fallback
\* mapping is aggregated without failing: the request raises nothing, absent
\* missing_fields and risks are reported as empty sequences, and the report
\* has document_type, status, the three issue sequences and message.
C12_ProseStillReports ==
    ProseReturned =>
        /\ pc # "failed" /\ exc = ""
        /\ pc \in {"aggregate", "done"} => ai_parsed = ExpectedFallback(ai_raw)
        /\ pc = "done" =>
              /\ response.code = 200
              /\ response.missing_fields = EmptyListVal
              /\ response.risks = EmptyListVal
              /\ response.invalid_fields = EmptyListVal
              /\ response.status = "CLEAR"
              /\ response.document_type.kind = "str"
              /\ response.message.kind = "str"

\* A request whose completion was prose has returned its report.
C12_Witness ==
    /\ ProseReturned
    /\ ai_raw.toks = <<Space, Prose, Space, Prose, Space>>
    /\ pc = "done"
    /\ response.code = 200

\* p is a prefix of s.
IsPrefix(p, s) == Len(p) <= Len(s) /\ \A i \in 1..Len(p) : p[i] = s[i]

\* The parts in order, a line break between each two of them.
LineJoined(parts) ==
    LET acc[n \in 0..Len(parts)] ==
            IF n = 0 THEN <<>>
            ELSE IF n = 1 THEN parts[1]
            ELSE acc[n - 1] \o <<"\n">> \o parts[n]
    IN  acc[Len(parts)]

\* validate_document has assembled its context.
ContextBuilt ==
    pc \in {"analyze_document_with_ai", "parse_ai_json", "aggregate", "done"}

\* C13: the context passed to the completion call has at most
\* MAX_CONTEXT_CHARS (2500) characters and is a prefix of the retrieved chunk
\* texts joined in result order by a line break.
C13_ContextIsBoundedPrefix ==
    ContextBuilt =>
        /\ Len(context) <= MAX_CONTEXT_CHARS
        /\ IsPrefix(context, LineJoined(relevant_chunks))
        /\ \A i \in 1..Len(calls) :
              calls[i].api = "chat/completions" => calls[i].input = context

\* The context of three whole chunks was passed to the completion call.
C13_Witness ==
    /\ pc = "parse_ai_json"
    /\ Len(context) > 2 * DefaultChunkSize
    /\ calls[Len(calls)] = CompletionCall(context)

\* The i-th response of the providers answers the request for a chunk of the
\* batch and is not a 200.
ChunkEmbeddingRefused(i) ==
    i \in 1..Len(replies) /\ i <= Len(chunks) /\ replies[i].status # "200"

\* C14: in embed_chunks the first response that is not a 200 aborts the whole
\* batch: no later chunk is submitted, no embedding of the batch is returned
\* or kept, and the request has failed without an index and without a call
\* of the completion provider.
C14_FirstRefusalAbortsBatch ==
    \A i \in 1..Len(replies) :
        ChunkEmbeddingRefused(i) =>
            /\ Len(calls) = i /\ Len(replies) = i
            /\ \A j \in 1..Len(calls) : calls[j].api = "embeddings"
            /\ embeddings = <<>> /\ embedded_chunks = <<>>
            /\ index = NoIndex /\ texts = <<>>
            /\ pc = "failed" /\ exc = "RuntimeError" /\ response.code = 500
            /\ ai_raw = PyNone

\* The second of at least three chunks was refused after the first was embedded.
C14_Witness ==
    /\ Len(chunks) >= 3
    /\ Len(replies) = 2
    /\ replies[1].status = "200"
    /\ ChunkEmbeddingRefused(2) /\ replies[2].status = "429"
    /\ pc = "failed"

\* The file of the request is neither a .pdf nor a .docx, or the text extracted
\* from it is blank after trimming.
UnsupportedOrBlank ==
    file.ext \notin {"pdf", "docx"} \/ Strip(file.extracted) = <<>>

\* C15: a request whose file has an unsupported format, or whose extracted
\* text is blank after trimming, is rejected with a client error before
\* chunking: chunk_text is never called, no request is ever sent to a
\* provider, and the only way the request ends is the 400 of an HTTPException.
C15_RejectedBeforeChunking ==
    UnsupportedOrBlank =>
        /\ chunk_pc = "idle" /\ chunks = <<>>
        /\ calls = <<>> /\ replies = <<>>
        /\ pc \in {"extract_text", "check_text", "failed"}
        /\ pc = "failed" => (exc = "HTTPException" /\ response.code = 400)

\* A .pdf whose text is two spaces was rejected.
C15_Witness ==
    /\ file.ext = "pdf" /\ file.extracted = <<" ", " ">>
    /\ text = file.extracted
    /\ pc = "failed" /\ response.code = 400

\* analyze_document_with_ai has returned: the last request went to the
\* completion provider.
CompletionAnswered ==
    calls # <<>> /\ calls[Len(calls)].api = "chat/completions"

\* v is a mapping whose key "error" holds a string.
IsErrorValue(v) ==
    v.kind = "dict" /\ v.keys # <<>> /\ v.keys[1] = "error" /\ v.items[1].kind = "str"

\* C16: analyze_document_with_ai never raises on a provider response: a
\* response that is not a 200 yields an error value carrying the provider's
\* status code and raw body, and a 200 without the expected completion field
\* yields an error value as well.
C16_CompletionErrorsAreValues ==
    CompletionAnswered =>
        LET res == replies[Len(replies)]
        IN  /\ pc = "parse_ai_json" => exc = ""
            /\ res.status # "200" =>
                  /\ IsErrorValue(ai_raw)
                  /\ ai_raw.keys = <<"error", "status_code", "response">>
                  /\ ai_raw.items[2].kind = "int"
                  /\ ai_raw.items[2].toks = <<res.status>>
                  /\ ai_raw.items[3] = res.body
            /\ (res.status = "200" /\ res.body = NoContent) =>
                  /\ IsErrorValue(ai_raw)
                  /\ ai_raw.keys = <<"error">>

\* A 429 with a body was turned into the error value.
C16_Witness ==
    /\ CompletionAnswered
    /\ pc = "parse_ai_json"
    /\ replies[Len(replies)].status = "429"
    /\ replies[Len(replies)].body.toks = <<Prose>>
    /\ IsErrorValue(ai_raw)

\* build_vector_store has been applied to the embedded chunks of the request.
BuildActed == embedded_chunks # <<>> /\ pc # "build_vector_store"

\* The embeddings of the batch do not all have the same length.
DimensionsDiffer ==
    \E i, j \in 1..Len(embedded_chunks) :
        Len(embedded_chunks[i].embedding) # Len(embedded_chunks[j].embedding)

\* C17: build_vector_store fails whenever the embeddings of one batch do not
\* all have the same length (numpy's ValueError for the ragged array), and
\* otherwise builds an index whose dimension is the length of the first
\* embedding, holding the embeddings in order, with a texts list of one entry
\* per embedded chunk in the same order.
C17_BuildFailsOnMismatchElseInOrder ==
    BuildActed =>
        IF DimensionsDiffer
        THEN /\ pc = "failed" /\ exc = "ValueError" /\ response.code = 500
             /\ index = NoIndex /\ texts = <<>>
        ELSE /\ exc # "ValueError"
             /\ index.d = Len(embedded_chunks[1].embedding)
             /\ Len(index.vectors) = Len(embedded_chunks)
             /\ Len(texts) = Len(embedded_chunks)
             /\ \A i \in 1..Len(embedded_chunks) :
                   /\ texts[i] = embedded_chunks[i].text
                   /\ index.vectors[i] = embedded_chunks[i].embedding

\* The last of three embeddings had another length and the build failed.
C17_Witness ==
    /\ BuildActed
    /\ Len(embedded_chunks) = 3
    /\ Len(embedded_chunks[1].embedding) = 1
    /\ Len(embedded_chunks[2].embedding) = 1
    /\ Len(embedded_chunks[3].embedding) = 2
    /\ pc = "failed" /\ exc = "ValueError"

\* semantic_search is called again with the query embedding of the call
\* before it, and returns.
SameSearchAgain ==
    /\ pc = "semantic_search" /\ pc' = "semantic_search"
    /\ replies # <<>>
    /\ Len(replies') = Len(replies) + 1
    /\ replies'[Len(replies')].vec = replies[Len(replies)].vec

DistanceTo(q, i) ==
    LET v == index.vectors[i]
        sq[n \in 0..Len(q)] ==
            IF n = 0 THEN 0 ELSE sq[n - 1] + (v[n] - q[n]) * (v[n] - q[n])
    IN  sq[Len(q)]

\* The i-th indexed vector is the r-th nearest to q: r-1 vectors are nearer,
\* or as near and inserted before it.
IsRthNearest(q, i, r) ==
    Cardinality({j \in 1..Len(index.vectors) :
        \/ DistanceTo(q, j) < DistanceTo(q, i)
        \/ (DistanceTo(q, j) = DistanceTo(q, i) /\ j < i)}) = r - 1

\* A call of semantic_search on the built index has just returned.
RepeatedSearchReturned ==
    pc = "semantic_search" /\ replies # <<>> /\ replies[Len(replies)].status = "200"

\* C21: the texts semantic_search returns are the texts of the chunks nearest
\* to the query embedding under squared Euclidean distance, in ascending
\* distance order, chunks at equal distance in insertion order: the r-th text
\* returned is the text stored at the position of the r-th nearest embedding.
C21_ResultsAreNearestInOrder ==
    RepeatedSearchReturned =>
        \A r \in 1..Len(relevant_chunks) :
            \E i \in 1..Len(texts) :
                /\ IsRthNearest(replies[Len(replies)].vec, i, r)
                /\ relevant_chunks[r] = texts[i]

\* The first min(top_k, number of indexed chunks) texts returned are the
\* texts of the nearest chunks in order.
NearestInOrderUpToIndexSize ==
    RepeatedSearchReturned =>
        \A r \in 1..Min(Len(relevant_chunks), Len(texts)) :
            \E i \in 1..Len(texts) :
                /\ IsRthNearest(replies[Len(replies)].vec, i, r)
                /\ relevant_chunks[r] = texts[i]

\* The i-th request a request that runs to its end sends: the chunks in
\* order to the embeddings endpoint, then the query to the embeddings
\* endpoint, then the context to the completion endpoint.
ExpectedCall(i) ==
    IF i <= Len(chunks) THEN [api |-> "embeddings", input |-> chunks[i]]
    ELSE IF i = Len(chunks) + 1 THEN [api |-> "embeddings", input |-> Query]
    ELSE [api |-> "chat/completions", input |-> context]

\* C22: a request that succeeds has issued its external calls in this order
\* and number: one embedding call per chunk in chunk order, then exactly one
\* query-embedding call, then exactly one completion call; no call is ever
\* repeated, every call got one response, and parsing and aggregation happen
\* only after the completion call has returned.
C22_CallsInOrderOnce ==
    /\ Len(calls) <= Len(chunks) + 2
    /\ Len(replies) = Len(calls)
    /\ \A i \in 1..Len(calls) : calls[i] = ExpectedCall(i)
    /\ (ai_parsed # PyNone \/ pc \in {"aggregate", "done"}) =>
          (Len(calls) = Len(chunks) + 2 /\ ai_raw = analyze_document_with_ai(replies[Len(replies)]))
    /\ pc = "done" =>
          /\ Len(calls) = Len(chunks) + 2
          /\ \A i \in 1..Len(calls) : replies[i].status = "200"

\* A request for a document of four chunks has succeeded after six calls.
C22_Witness ==
    pc = "done" /\ Len(chunks) = 4 /\ Len(calls) = 6 /\ response.code = 200

\* The text holds three backticks in a row.
HasFence(t) ==
    \E i \in 1..(Len(t) - 2) :
        t[i] = Backtick /\ t[i + 1] = Backtick /\ t[i + 2] = Backtick

\* The text is a JSON object and has no fence in it.
IsPlainJsonObject(t) ==
    ~HasFence(t) /\ JsonLoads(Strip(t)).ok /\ JsonLoads(Strip(t)).val.kind = "dict"

\* The text is J between a json fence and a fence, J a JSON object whose
\* missing_fields and risks are empty lists.
IsFencedClearObject(t) ==
    \E j \in AiFieldTexts :
        /\ t = Fenced(j)
        /\ FieldOf(JsonLoads(j).val, "missing_fields") = EmptyListVal
        /\ FieldOf(JsonLoads(j).val, "risks") = EmptyListVal

\* C23: parse_ai_json removes every occurrence of the fence tokens, trims and
\* then parses strictly: what is parsed holds no fence; for every JSON object
\* J without a fence token, J wrapped in a json fence and a fence is parsed
\* to the same mapping as J; and a fenced object with empty missing_fields
\* and risks is reported with status CLEAR.
C23_FencesAreTransparent ==
    (ParseActed /\ ai_raw.kind = "str") =>
        /\ ~HasFence(ReSubFences(ai_raw.toks, 1))
        /\ IsPlainJsonObject(ai_raw.toks) =>
              /\ exc = ""
              /\ ai_parsed = JsonLoads(Strip(ai_raw.toks)).val
              /\ parse_ai_json(PyStr(Fenced(ai_raw.toks))) = Returned(ai_parsed)
        /\ IsFencedClearObject(ai_raw.toks) =>
              /\ exc = "" /\ ai_parsed.kind = "dict"
              /\ pc = "done" => response.status = "CLEAR"

\* A fenced object with empty missing_fields and risks was reported CLEAR.
C23_Witness ==
    /\ ParseActed /\ pc = "done"
    /\ ai_raw.toks = Fenced(FieldsText(<<"[", "]">>, <<"[", "]">>))
    /\ ai_parsed = JsonLoads(FieldsText(<<"[", "]">>, <<"[", "]">>)).val
    /\ response.status = "CLEAR"

\* C24: issues.invalid_fields is the empty sequence in the report of every
\* request, whatever the model output contains, a non-empty invalid_fields
\* key included; the status is NEEDS_ATTENTION only for a non-empty
\* missing_fields or risks.
C24_InvalidFieldsAlwaysEmpty ==
    pc = "done" =>
        /\ response.invalid_fields = EmptyListVal
        /\ response.status = "NEEDS_ATTENTION" =>
              \/ Truthy(response.missing_fields)
              \/ Truthy(response.risks)

\* A model output whose invalid_fields holds an entry was reported CLEAR with
\* an empty invalid_fields.
C24_Witness ==
    /\ pc = "done"
    /\ ~Lacks(ai_parsed, "invalid_fields")
    /\ NonEmpty(FieldOf(ai_parsed, "invalid_fields"))
    /\ response.invalid_fields = EmptyListVal
    /\ response.status = "CLEAR"

\* The request for the 1300 characters of the scenario has assembled its context.
ScenarioContextBuilt ==
    text = HelloText(1300) /\ pc = "analyze_document_with_ai"

-----------------------------------------------------------------------------
(* Properties of chunk_text *)

\* ceil(a / b) for b > 0 (\div rounds towards minus infinity).
CeilDiv(a, b) == -((-a) \div b)

ValidConfig == chunk_size > 0 /\ 0 <= overlap /\ overlap < chunk_size

\* C1: with overlap >= chunk_size and a non-empty text, chunk_text fails fast:
\* the only step it takes is to raise InvalidConfiguration; it never runs an
\* iteration of the while loop.
C1_InvalidConfigFailsFast ==
    [][(overlap >= chunk_size /\ Len(text) > 0) => chunk_pc' = "raised"]_vars

\* With overlap >= chunk_size and a non-empty text the loop is never left and
\* the window start never moves forward.
InvalidConfigNeverReturns ==
    (overlap >= chunk_size /\ Len(text) > 0) => (chunk_pc = "loop" /\ start <= 0)

\* C6 (as stated): for a non-empty text and a valid configuration the number
\* of chunks returned is ceil((len(text) - overlap) / (chunk_size - overlap)).
C6_CountAsStated ==
    (chunk_pc = "done" /\ Len(text) > 0 /\ ValidConfig)
        => Len(chunks) = CeilDiv(Len(text) - overlap, chunk_size - overlap)

\* C6 (amended): for a non-empty text and a valid configuration the number of
\* chunks returned is ceil(len(text) / (chunk_size - overlap)).
C6_CountIsCeilLenOverStep ==
    (chunk_pc = "done" /\ Len(text) > 0 /\ ValidConfig)
        => Len(chunks) = CeilDiv(Len(text), chunk_size - overlap)

\* A call has returned whose last window lies wholly inside the previous one.
C6_Witness ==
    /\ chunk_pc = "done" /\ Len(text) > 0 /\ ValidConfig /\ overlap > 0
    /\ Len(chunks) = CeilDiv(Len(text), chunk_size - overlap)
    /\ Len(chunks) > CeilDiv(Len(text) - overlap, chunk_size - overlap)

\* C7: for every text and every valid configuration chunk_text terminates:
\* each iteration strictly increases the window start, the loop is left only
\* once the start has reached or passed len(text), and it is left eventually.
C7_Terminates ==
    /\ [][ValidConfig =>
            \/ (chunk_pc' = "loop" /\ start' > start)
            \/ (chunk_pc' = "done" /\ start' = start /\ start >= Len(text))]_vars
    /\ [](ValidConfig => <>(chunk_pc = "done"))

\* A call with a valid configuration has returned after three iterations.
C7_Witness ==
    chunk_pc = "done" /\ ValidConfig /\ Len(chunks) >= 3 /\ start >= Len(text)

\* C18: chunk_text returns at least one chunk for every text that is
\* non-empty after trimming whitespace, for every valid configuration
\* (0 <= overlap < chunk_size).
C18_AtLeastOneChunk ==
    (chunk_pc = "done" /\ ValidConfig /\ Strip(text) # <<>>) => Len(chunks) >= 1

\* A text with whitespace around it and shorter than one window was returned
\* as one chunk.
C18_Witness ==
    /\ chunk_pc = "done" /\ ValidConfig
    /\ Strip(text) # <<>> /\ Strip(text) # text
    /\ Len(text) < chunk_size
    /\ Len(chunks) = 1

\* C20: for a valid configuration the i-th chunk returned (i from 0) is the
\* verbatim substring of the text that starts at offset i*(chunk_size-overlap)
\* and has length min(chunk_size, len(text) - i*(chunk_size-overlap)); every
\* chunk has between 1 and chunk_size characters, and two consecutive chunks
\* share the characters of the overlap that exist.
C20_ChunksAreWindows ==
    (chunk_pc = "done" /\ ValidConfig) =>
        \A i \in 1..Len(chunks) :
            LET step == chunk_size - overlap
                off == (i - 1) * step
                n == Min(chunk_size, Len(text) - off)
                shared == Max(0, Len(chunks[i]) - step)
            IN  /\ Len(chunks[i]) = n
                /\ 1 <= n /\ n <= chunk_size
                /\ \A j \in 1..n : chunks[i][j] = text[off + j]
                /\ i < Len(chunks) =>
                      /\ shared <= overlap
                      /\ shared <= Len(chunks[i + 1])
                      /\ \A j \in 1..shared : chunks[i][step + j] = chunks[i + 1][j]

\* Three or more overlapping windows over a text of both characters were
\* returned, the last one shorter than chunk_size.
C20_Witness ==
    /\ chunk_pc = "done" /\ ValidConfig /\ overlap > 0
    /\ Len(chunks) >= 3
    /\ Len(chunks[Len(chunks)]) < chunk_size
    /\ \E i, j \in 1..Len(text) : text[i] # text[j]

-----------------------------------------------------------------------------
(* Properties of the onboarding agent *)

\* The list items have been fetched and searched.
RecordSearched ==
    /\ onb # <<>>
    /\ \E i \in 1..Len(onb.calls) : onb.calls[i].api = "graph/items"

\* No list item has a field whose trimmed, lower-cased value is the trimmed,
\* lower-cased query.
NoFieldEqualsQuery ==
    \A i \in 1..Len(onb.items) :
        \A k \in 1..Len(onb.items[i].fields.items) :
            LET val == onb.items[i].fields.items[k]
            IN  val.kind = "str" => Lower(Strip(val.toks)) # Lower(Strip(onb.query))

\* C26: when no list item has a field whose trimmed, lower-cased value equals
\* the trimmed, lower-cased query, the request ends with a 404 (not with a
\* 500) and no AI call is made.
C26_NoRecordIs404 ==
    (RecordSearched /\ NoFieldEqualsQuery) =>
        /\ onb.pc = "done"
        /\ onb.response.code = 404
        /\ \A i \in 1..Len(onb.calls) : onb.calls[i].api # "chat/completions"

\* Without a matching field the request ends, as a 500, without an AI call.
NoRecordEndsWithoutAiCall ==
    (RecordSearched /\ NoFieldEqualsQuery) =>
        /\ onb.pc = "done"
        /\ onb.response.code = 500
        /\ \A i \in 1..Len(onb.calls) : onb.calls[i].api # "chat/completions"

\* analyze_onboarding_with_ai has returned and the request has ended.
OnbAnalysisEnded == onb # <<>> /\ onb.pc = "done" /\ onb.ai_raw # PyNone

\* The value is not a string that is valid JSON once the fences are removed
\* and the rest is trimmed.
NotJsonText(v) ==
    \/ v.kind # "str"
    \/ ~JsonLoads(Strip(StrReplace(StrReplace(v.toks,
                <<Backtick, Backtick, Backtick, JsonWord>>),
                <<Backtick, Backtick, Backtick>>))).ok

\* The fallback: status NEEDS_ATTENTION, no missing and no invalid fields,
\* the one risk "AI response could not be parsed".
IsOnbFallback(v) ==
    /\ v.kind = "dict"
    /\ DictGet(v, "status", PyNone) = StrVal("NEEDS_ATTENTION")
    /\ LET issues == DictGet(v, "issues", PyNone)
       IN  /\ issues.kind = "dict"
           /\ DictGet(issues, "missing_fields", PyNone) = EmptyListVal
           /\ DictGet(issues, "invalid_fields", PyNone) = EmptyListVal
           /\ DictGet(issues, "risks", PyNone).kind = "list"
           /\ DictGet(issues, "risks", PyNone).items
                 = <<StrVal("AI response could not be parsed")>>

\* C30: the onboarding agent's parse_ai_json never raises, for a string or
\* for the error mapping of a failed AI call: whenever its input is not a
\* string of valid JSON after fence removal it returns the fallback (status
\* NEEDS_ATTENTION, empty missing_fields and invalid_fields, the single risk
\* "AI response could not be parsed"); so a failed AI call yields a report
\* whose risk list is non-empty and whose message is not the 'complete and
\* valid' message.
C30_OnbParseNeverRaises ==
    OnbAnalysisEnded =>
        /\ NotJsonText(onb.ai_raw) =>
              /\ onb.exc = ""
              /\ IsOnbFallback(onb.ai_result)
              /\ onb.response.code = 200
        /\ onb.ai_reply.status # "200" =>
              /\ onb.ai_raw.kind = "dict"
              /\ onb.exc = ""
              /\ onb.response.code = 200
              /\ Truthy(DictGet(onb.response.body, "risk_fields", PyNone))
              /\ DictGet(onb.response.body, "message", PyNone).kind = "str"
              /\ DictGet(onb.response.body, "message", PyNone).toks
                    # <<"The onboarding record is complete and valid.">>

\* An AI call answered 429 has ended in a report with the fallback's risk.
C30_Witness ==
    /\ OnbAnalysisEnded
    /\ onb.ai_reply.status = "429"
    /\ onb.response.code = 200
    /\ IsOnbFallback(onb.ai_result)
    /\ DictGet(onb.response.body, "risk_fields", PyNone).items
          = <<StrVal("AI response could not be parsed")>>

-----------------------------------------------------------------------------
(* Properties of the SharePoint proxy *)

\* The EmailAddress of the n-th item of the list.
EmailOfItem(n) == DictGet(list_items[n].fields, "EmailAddress", PyNone)

\* C27: the list holds at most one item per EmailAddress, however the
\* requests to upsert_list_item are interleaved.
C27_AtMostOneItemPerEmail ==
    \A i, j \in 1..Len(list_items) : EmailOfItem(i) = EmailOfItem(j) => i = j

\* The positions in graph_calls of the writes made for request r.
WritesOf(r) ==
    {n \in 1..Len(graph_calls) :
        graph_calls[n].req = r /\ graph_calls[n].method \in {"PATCH", "POST"}}

\* The positions in graph_calls of the searches made for request r.
SearchesOf(r) ==
    {n \in 1..Len(graph_calls) : graph_calls[n].req = r /\ graph_calls[n].method = "GET"}

\* The name is one of the system fields.
IsSystemField(k) ==
    k \in {"PercentComplete", "LastUpdated", "Created", "Modified", "ID", "Author", "Editor"}

\* C28: a request to upsert_list_item makes at most one write, and only after
\* its search was answered ok: a PATCH of the first item found when the search
\* found one, a POST when it found none; a request answered 401 or 400, or
\* whose search failed, makes no write; the fields written hold no system
\* field.
C28_OneWriteAfterSearch ==
    \A r \in DOMAIN upserts :
        /\ Cardinality(WritesOf(r)) <= 1
        /\ Cardinality(SearchesOf(r)) <= 1
        /\ \A n \in WritesOf(r) :
             /\ \E m \in SearchesOf(r) : m < n /\ graph_calls[m].ok
             /\ graph_calls[n].method = "PATCH" =>
                    /\ Len(upserts[r].existing_items) >= 1
                    /\ graph_calls[n].item_id = upserts[r].existing_items[1].id
             /\ graph_calls[n].method = "POST" => upserts[r].existing_items = <<>>
             /\ \A i \in 1..Len(graph_calls[n].fields.keys) :
                    ~IsSystemField(graph_calls[n].fields.keys[i])
        /\ (\E m \in SearchesOf(r) : ~graph_calls[m].ok) => WritesOf(r) = {}
        /\ (upserts[r].pc = "done" /\ upserts[r].response.code \in {400, 401}) =>
               WritesOf(r) = {} /\ SearchesOf(r) = {}
        /\ (upserts[r].pc = "done" /\ upserts[r].response.code \in {200, 201}) =>
               Cardinality(WritesOf(r)) = 1

\* C28 witness: one request that carried system fields has patched the item
\* its search found and another has posted a new item.
C28_Witness ==
    \E r, q \in DOMAIN upserts :
        /\ upserts[r].pc = "done" /\ upserts[r].response.code = 200
        /\ HasKey(DictGet(upserts[r].body, "fields", PyNone), "Editor")
        /\ \E n \in WritesOf(r) : graph_calls[n].method = "PATCH"
        /\ upserts[q].pc = "done" /\ upserts[q].response.code = 201
        /\ \E n \in WritesOf(q) : graph_calls[n].method = "POST"

\* The header is missing or does not start with "Bearer ".
NotBearer(auth) ==
    \/ auth = PyNone
    \/ Len(auth.toks) < 2
    \/ auth.toks[1] # "Bearer"
    \/ auth.toks[2] # " "

\* C29: every endpoint of the proxy but /health answers 401 and makes no call
\* to Graph when the Authorization header is missing or does not start with
\* "Bearer "; every call to Graph carries the Authorization value of the
\* request it is made for, unchanged.
C29_BearerRequiredAndForwarded ==
    /\ (served.endpoint # "" /\ served.endpoint # "/health") =>
          /\ NotBearer(served.auth) => served.code = 401 /\ served.sent = PyNone
          /\ served.sent # PyNone =>
                DictGet(served.sent, "Authorization", PyNone) = served.auth
    /\ \A r \in DOMAIN upserts :
          NotBearer(upserts[r].auth) =>
              /\ upserts[r].pc = "done" => upserts[r].response.code = 401
              /\ \A n \in 1..Len(graph_calls) : graph_calls[n].req # r
    /\ \A n \in 1..Len(graph_calls) :
          DictGet(graph_calls[n].headers, "Authorization", PyNone)
              = upserts[graph_calls[n].req].auth

\* C29 witness: an endpoint has refused a header of another scheme without a
\* call, and upsert_list_item has written to Graph with its caller's header.
C29_Witness ==
    /\ served.endpoint \notin {"", "/health"}
    /\ served.auth = PyStr(<<"bearer", " ", "tok">>)
    /\ served.code = 401
    /\ \E n \in 1..Len(graph_calls) : graph_calls[n].method = "POST"

\* The onboarding agent under the same get_headers: without a Bearer header
\* the answer is 401 and no call is made; every call carries the header.
OnbBearerRequiredAndForwarded ==
    onb # <<>> =>
        /\ (NotBearer(onb.auth) /\ onb.pc # "get_headers") =>
              onb.pc = "done" /\ onb.response.code = 401 /\ onb.calls = <<>>
        /\ \A n \in 1..Len(onb.calls) :
              onb.calls[n].api \in {"graph/sites", "graph/items"} =>
                  DictGet(onb.calls[n].headers, "Authorization", PyNone) = onb.auth

-----------------------------------------------------------------------------
(* Properties of concurrent requests *)

\* The call a request with the locals f makes as its n-th: one embedding
\* call per chunk, one for the query, one completion call with its context.
OwnCall(f, n) ==
    IF n <= Len(f.chunks) THEN EmbeddingCall(f.chunks[n])
    ELSE IF n = Len(f.chunks) + 1 THEN EmbeddingCall(Query)
    ELSE CompletionCall(f.context)

\* Every local of the request is what its own file and the responses the
\* providers gave to its own calls determine.
OwnLocalsOnly(f) ==
    /\ f.text \in {<<>>, f.file.extracted}
    /\ \A i \in 1..Len(f.chunks) :
          f.chunks[i] = PySlice(f.file.extracted,
                                (i - 1) * (DefaultChunkSize - DefaultOverlap),
                                (i - 1) * (DefaultChunkSize - DefaultOverlap)
                                    + DefaultChunkSize)
    /\ Len(f.calls) = Len(f.replies)
    /\ Len(f.embeddings) <= Len(f.chunks)
    /\ Len(f.embeddings) <= Len(f.replies)
    /\ \A i \in 1..Len(f.embeddings) :
          f.embeddings[i] = [text |-> f.chunks[i], embedding |-> f.replies[i].vec]
    /\ f.embedded_chunks \in {<<>>, f.embeddings}
    /\ Len(f.texts) = Len(f.index.vectors)
    /\ f.pc \in {"extract_text", "check_text", "chunk_text", "embed_chunks",
                 "build_vector_store"} => f.texts = <<>>
    /\ Len(f.texts) \in {0, Len(f.embedded_chunks)}
    /\ \A i \in 1..Len(f.texts) :
          /\ f.texts[i] = f.embedded_chunks[i].text
          /\ f.index.vectors[i] = f.embedded_chunks[i].embedding
    /\ f.relevant_chunks # <<>> =>
          /\ Len(f.replies) > Len(f.chunks)
          /\ f.relevant_chunks =
                SearchTexts(f.index, f.texts, f.replies[Len(f.chunks) + 1].vec, TopK)
    /\ f.context # <<>> => f.context = CutContext(Join(<<"\n">>, f.relevant_chunks))
    /\ Len(f.calls) <= Len(f.chunks) + 2
    /\ \A n \in 1..Len(f.calls) : f.calls[n] = OwnCall(f, n)
    /\ f.pc \in {"parse_ai_json", "aggregate", "done"} =>
          /\ Len(f.replies) = Len(f.chunks) + 2
          /\ f.ai_raw = analyze_document_with_ai(f.replies[Len(f.replies)])
    /\ f.pc \in {"aggregate", "done"} => f.ai_parsed = parse_ai_json(f.ai_raw).value
    /\ f.pc = "done" => f.response = Report(f.ai_parsed)

\* C25: two requests to validate_document that run interleaved do not
\* interfere: the chunks, embedded chunks, index, texts and report of each
\* are those of its own file and of the responses to its own calls, whatever
\* the other request did in between.
C25_RequestsDoNotInterfere ==
    other # <<>> => \A f \in {Frame, other} : OwnLocalsOnly(f)

\* C25 witness: both requests are in flight with an index of their own, the
\* second one running and the first one suspended before its completion call.
C25_Witness ==
    /\ other # <<>>
    /\ file = SecondFile
    /\ pc = "semantic_search"
    /\ texts = <<HelloText(2)>>
    /\ other.pc = "analyze_document_with_ai"
    /\ other.texts = <<HelloText(1)>>

\* Both requests can end with a report, the first after the second.
BothReported ==
    /\ other # <<>>
    /\ file = FirstFile /\ pc = "done"
    /\ other.pc = "done"

=============================================================================
